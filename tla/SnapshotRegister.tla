-------------------------- MODULE SnapshotRegister --------------------------
(***************************************************************************)
(* What the shared realtime cache promises the tools that call it, apart   *)
(* from how it keeps the promise: one register holding a snapshot, which   *)
(* every call reads, advances or finds empty in a single instant.          *)
(*                                                                         *)
(* A snapshot is a function from feeds to the time the feed was read from  *)
(* the gateway, or None for a feed it carries nothing from.                *)
(***************************************************************************)
EXTENDS Naturals

CONSTANTS Callers, Feeds, None, Nil

VARIABLES register, answer

rvars == <<register, answer>>

Learned(s) == {f \in Feeds : s[f] # None}

(***************************************************************************)
(* A refresh may only move the network's picture forward: it carries       *)
(* something, and no feed it shares with the picture it replaces was read  *)
(* earlier than there.                                                     *)
(***************************************************************************)
Supersedes(new, old) ==
  /\ Feeds # {} => Learned(new) # {}
  /\ old # Nil => \A f \in Learned(new) \cap Learned(old) : new[f] >= old[f]

RegisterInit ==
  /\ register = Nil
  /\ answer = [c \in Callers |-> [snap |-> Nil, err |-> FALSE]]

(* The call is answered from the register as it stands. *)
Answer(c) ==
  /\ register # Nil
  /\ answer' = [answer EXCEPT ![c] = [snap |-> register, err |-> FALSE]]
  /\ UNCHANGED register

(* The call refreshes the register and is answered from the new contents. *)
Advance(c) ==
  /\ register' # Nil
  /\ Supersedes(register', register)
  /\ answer' = [answer EXCEPT ![c] = [snap |-> register', err |-> FALSE]]

(* Nothing has ever been learned, and this call learned nothing either. *)
Refuse(c) ==
  /\ register = Nil
  /\ answer' = [answer EXCEPT ![c] = [snap |-> Nil, err |-> TRUE]]
  /\ UNCHANGED register

RegisterNext == \E c \in Callers : Answer(c) \/ Advance(c) \/ Refuse(c)

RegisterSpec == RegisterInit /\ [][RegisterNext]_rvars
=============================================================================
