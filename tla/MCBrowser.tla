------------------------------ MODULE MCBrowser -------------------------------
(***************************************************************************)
(* Small instances of Browser (and of Accounts below it) for TLC.          *)
(***************************************************************************)
EXTENDS Browser, TLC

CONSTANTS t1, t2, c1, c2, o1, o2, j1, p1, p2, k1, b1, b2

OneTab == {t1}
TwoTabs == {t1, t2}
TwoCalls == {c1, c2}
NoCalls == {}
PageSlots == {t1, c1, c2, o1, o2}
ServerSlots == {o1, o2}
TabSlots == {t1, t2}
OneJar == [t \in Tabs |-> j1]
SameTab == [c \in Calls |-> t1]

PageOps == {"read", "login", "logout"}
AllOps == Ops
NoOps == {}

\* The requests from elsewhere are interchangeable, and so are the calls and
\* the passwords.
SlotSymmetry ==
  {f @@ g @@ h : f \in Permutations(ServerSlots), g \in Permutations(TwoCalls),
                 h \in Permutations({p1, p2})}
===============================================================================
