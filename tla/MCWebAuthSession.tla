-------------------------- MODULE MCWebAuthSession --------------------------
(* Instances of WebAuthSession: two tabs and three sessions. *)
EXTENDS WebAuthSession

CONSTANTS t1, t2, s1, s2

(* Browsers in which users have already been busy.  Both tabs are open with  *)
(* or without a session from before (Init); or tab t1 has signed in to s1 and *)
(* tab t2, opened later, has restored it with a refresh; or t2 has signed in  *)
(* to s2 after t1 to s1, so that the cookie is that of s2, and t1 has missed  *)
(* the event or has not heard of it yet.                                      *)
Busy(known, cookie, rows, events) ==
  /\ row = rows
  /\ jar = cookie
  /\ store = [t \in Tabs |-> [sid |-> known[t], tok |-> "fresh", boot |-> "complete"]]
  /\ run = [t \in Tabs |-> NoRun]
  /\ act = [t \in Tabs |-> NoAct]
  /\ call = [t \in Tabs |-> NoCall]
  /\ inbox = [t \in Tabs |-> IF t = t1 THEN events ELSE <<>>]
  /\ lock = None
  /\ orphans = {} /\ strayed = {} /\ ending = {}
  /\ out = [t \in Tabs |-> {}]
  /\ begun = 0

BusyInit ==
  \/ Init
  \/ \E replay \in BOOLEAN :
       Busy([t \in Tabs |-> s1], [sid |-> s1, gen |-> 2],
            [[s \in Sids |-> NoRow] EXCEPT ![s1] = [NewRow EXCEPT !.gen = 2, !.replay = replay]],
            <<>>)
  \/ \E events \in {<<>>, <<[kind |-> "authenticated", sid |-> s2]>>} :
       Busy([t \in Tabs |-> IF t = t1 THEN s1 ELSE s2], [sid |-> s2, gen |-> 1],
            [[s \in Sids |-> NoRow] EXCEPT ![s1] = NewRow, ![s2] = NewRow], events)

BusySpec == BusyInit /\ [][Next]_vars /\ Fairness
=============================================================================
