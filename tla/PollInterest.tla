---------------------------- MODULE PollInterest ----------------------------
(* What the poll table of main.c promises the rest of the server: every  *)
(* descriptor it was given and not yet told to forget has a set of       *)
(* events poll() waits for, which changes only when that descriptor's    *)
(* events are set or cleared.                                             *)
EXTENDS FiniteSets

CONSTANTS
  Fds,      \* descriptor numbers
  Events,   \* the events a descriptor can wait for
  Start     \* the descriptors registered at start, with their events

VARIABLE interest   \* interest[fd]: the events poll() waits for on fd

Register(fd, ev) ==
  /\ fd \notin DOMAIN interest
  /\ interest' = [x \in DOMAIN interest \cup {fd} |-> IF x = fd THEN ev ELSE interest[x]]

Update(fd, ev) ==
  /\ fd \in DOMAIN interest
  /\ interest' = [interest EXCEPT ![fd] = ev]

Unregister(fd) ==
  /\ fd \in DOMAIN interest
  /\ interest' = [x \in DOMAIN interest \ {fd} |-> interest[x]]

Next == \E fd \in Fds, ev \in SUBSET Events :
          Register(fd, ev) \/ Update(fd, ev) \/ Unregister(fd)

Spec == interest = Start /\ [][Next]_interest
==============================================================================
