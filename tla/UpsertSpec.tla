----------------------------- MODULE UpsertSpec -----------------------------
(***************************************************************************)
(* What a "create or update" call promises about one object of the         *)
(* Kubernetes API, whatever requests it is made of: the caller's fields    *)
(* are laid over the object in ONE step, and everything else in the object *)
(* is left as its other writers wrote it.  A call whose answer is lost may *)
(* have taken effect and is still pending; a call may also find that       *)
(* somebody else created the object meanwhile and give way to it.          *)
(***************************************************************************)
CONSTANTS
  Calls,        \* the create-or-update calls issued against the object
  Fields,       \* the leaf fields of the object
  Values,       \* the values a field may have
  NoValue,      \* the field is absent from the object, or from a template
  Desired,      \* Desired[c] is the rendered template of call c
  Replaces      \* TRUE: the call replaces the data, FALSE: it merges into it

VARIABLES
  obj,          \* the object: is it live, and its data
  status        \* status[c]: "pending" or "ok"

vars == <<obj, status>>

Data == [Fields -> Values \union {NoValue}]
Empty == [f \in Fields |-> NoValue]

\* The caller's fields laid over base; absent fields keep what base has.
Overlay(base, want) ==
  [f \in Fields |-> IF want[f] = NoValue THEN base[f] ELSE want[f]]

\* The data a call leaves behind, given the data it found.
Result(c, base) == IF Replaces THEN Desired[c] ELSE Overlay(base, Desired[c])

Init ==
  /\ obj = [live |-> FALSE, data |-> Empty]
  /\ status = [c \in Calls |-> "pending"]

\* The call takes effect; its answer arrives, or is lost.
Upsert(c) ==
  /\ status[c] = "pending"
  /\ obj' = [live |-> TRUE, data |-> IF obj.live THEN Result(c, obj.data) ELSE Desired[c]]
  /\ \/ status' = [status EXCEPT ![c] = "ok"]
     \/ UNCHANGED status

\* The object was created by somebody else while the call was under way.
GiveWay(c) ==
  /\ ~Replaces
  /\ status[c] = "pending"
  /\ obj.live
  /\ status' = [status EXCEPT ![c] = "ok"]
  /\ UNCHANGED obj

\* Another writer (a controller, a user) changes one field or deletes it all.
OtherWrite ==
  /\ obj.live
  /\ \E f \in Fields, v \in Values :
       obj' = [live |-> TRUE, data |-> [obj.data EXCEPT ![f] = v]]
  /\ UNCHANGED status

OtherDelete ==
  /\ obj.live
  /\ obj' = [live |-> FALSE, data |-> Empty]
  /\ UNCHANGED status

Next ==
  \/ \E c \in Calls : Upsert(c) \/ GiveWay(c)
  \/ OtherWrite
  \/ OtherDelete

Spec == Init /\ [][Next]_vars
=============================================================================
