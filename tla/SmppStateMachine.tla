--------------------------- MODULE SmppStateMachine ---------------------------
(***************************************************************************)
(* The State-pattern machine of SmppClientHandler (smpp_state_machine_v2 and  *)
(* smpp_states), with the callbacks its owner registers.                      *)
(*                                                                           *)
(* A callback runs in the middle of an operation and may itself call          *)
(* operations of the machine: stack holds the callbacks that are running,     *)
(* innermost last, each with the callback its operation will make next.       *)
(* current_state_.reset(new_state) deletes the state object that is left,     *)
(* although the members (connected_state_ ...) own the objects too: freed is  *)
(* the set of the objects deleted so far.                                     *)
(***************************************************************************)
EXTENDS Integers, Sequences

CONSTANTS
  MaxDepth  \* bound: operations nested in callbacks

ASSUME DepthAssumption == MaxDepth \in Nat \ {0}

VARIABLES
  current,   \* the state object current_state_ points to
  freed,     \* state objects that were deleted
  stack,     \* the callbacks that are running
  announced  \* history: bind_success callbacks made for a type of bind

machineVars == <<current, freed, stack, announced>>

BoundStates == {"BOUND_TX", "BOUND_RX", "BOUND_TRX"}

Terminal == {"DISCONNECTED", "ERROR_STATE"}

States == {"IDLE", "CONNECTED", "BINDING", "UNBINDING"} \cup BoundStates \cup Terminal

\* Bind responses; "OTHER" is any other command id.
BindTypes == {"BindTransmitterResp", "BindReceiverResp", "BindTransceiverResp"}

\* The operations a state overrides; the others throw SmppStateException.
Accepts(s) ==
  CASE s = "CONNECTED"     -> {"bind"}
    [] s = "BINDING"       -> {"bind_resp"}
    [] s \in BoundStates   -> {"unbind", "enquire_link", "enquire_link_resp"}
    [] s = "UNBINDING"     -> {"unbind_resp"}
    [] OTHER               -> {}

Operations ==
  {"bind", "bind_resp", "unbind", "unbind_resp", "enquire_link", "enquire_link_resp",
   "submit_sm", "submit_sm_resp", "deliver_sm", "deliver_sm_resp"}

Callbacks == {"transition", "unbind_success", "error"} \cup BindTypes \cup {"OTHER"}

Frames == [cb : Callbacks, next : Callbacks \cup {"none"}]

init_states ==
  /\ current = "IDLE" /\ freed = {} /\ stack = <<>> /\ announced = 0

\* An operation may be called from outside or from the callback that runs.
MayCall(op) == Len(stack) < MaxDepth /\ op \in Accepts(current)

\* cb is called; next is called when it has returned.  A bind_success callback
\* is named by its type.
run_callback(rest, cb, next) ==
  /\ stack' = Append(rest, [cb |-> cb, next |-> next])
  /\ announced' = IF cb \in BindTypes THEN announced + 1 ELSE announced

\* transition_to(new), after which the operation calls next.
transition_to(new, next) ==
  IF new = current
  THEN /\ UNCHANGED <<current, freed>>
       /\ IF next = "none" THEN UNCHANGED <<stack, announced>>
                           ELSE run_callback(stack, next, "none")
  ELSE /\ current' = new /\ freed' = freed \cup {current}
       /\ run_callback(stack, "transition", next)

-----------------------------------------------------------------------------
(* Operations.                                                               *)

\* The owner reports the connection.  The guard is an assumption on the owner
\* and not a check of the code, which has none and no caller yet: the transition
\* table of the documentation has this event in IDLE only, and a machine that
\* has ended is replaced by a new one.  The owner's timers of that table, which
\* do not exist yet either, are left out.
transition_to_connected ==
  /\ Len(stack) < MaxDepth /\ current = "IDLE"
  /\ transition_to("CONNECTED", "none")

handle_bind == MayCall("bind") /\ transition_to("BINDING", "none")

BoundState(type) ==
  CASE type = "BindTransmitterResp" -> "BOUND_TX"
    [] type = "BindReceiverResp"    -> "BOUND_RX"
    [] type = "BindTransceiverResp" -> "BOUND_TRX"

\* ESME_ROK.  A type that is none of the three leaves the state alone, and
\* bind_success is called all the same.
handle_bind_resp(type) ==
  /\ MayCall("bind_resp")
  /\ IF type \in BindTypes
     THEN transition_to(BoundState(type), type)
     ELSE run_callback(stack, type, "none") /\ UNCHANGED <<current, freed>>

\* Mutant: bind_success is called whatever the status.
handle_bind_resp_failed_announces ==
  MayCall("bind_resp") /\ transition_to("DISCONNECTED", "BindTransmitterResp")

handle_bind_resp_failed ==
  MayCall("bind_resp") /\ transition_to("DISCONNECTED", "none")

handle_unbind == MayCall("unbind") /\ transition_to("UNBINDING", "none")

handle_unbind_resp ==
  MayCall("unbind_resp") /\ transition_to("DISCONNECTED", "unbind_success")

\* Mutant: a refused unbind puts the machine back into its bound state.
handle_unbind_resp_failed_back ==
  /\ MayCall("unbind_resp")
  /\ \E s \in freed \cap BoundStates : transition_to(s, "none")

handle_unbind_resp_failed ==
  MayCall("unbind_resp") /\ transition_to("ERROR_STATE", "error")

\* handle_enquire_link and handle_enquire_link_resp in a bound state only log.
handle_enquire_link(op) ==
  MayCall(op) /\ op \in {"enquire_link", "enquire_link_resp"} /\ UNCHANGED machineVars

\* Mutant: an operation the state does not take is only logged when it is a bind
\* and the connection was closed, and starts anew.
reject_rebinds(op) ==
  /\ Len(stack) < MaxDepth /\ op \notin Accepts(current)
  /\ IF op = "bind" /\ current = "DISCONNECTED"
     THEN transition_to("BINDING", "none")
     ELSE transition_to("ERROR_STATE", "error")

\* Any handler in a state that does not take the PDU: the exception is caught
\* and becomes transition_to_error.
reject(op) ==
  /\ Len(stack) < MaxDepth /\ op \notin Accepts(current)
  /\ transition_to("ERROR_STATE", "error")

\* The innermost callback returns, and its operation goes on.
callback_returns ==
  /\ stack # <<>>
  /\ LET top  == stack[Len(stack)]
         rest == SubSeq(stack, 1, Len(stack) - 1)
     IN  IF top.next = "none" THEN stack' = rest /\ UNCHANGED announced
                              ELSE run_callback(rest, top.next, "none")
  /\ UNCHANGED <<current, freed>>

MachineNext ==
  \/ transition_to_connected \/ handle_bind
  \/ \E type \in BindTypes \cup {"OTHER"} : handle_bind_resp(type)
  \/ handle_bind_resp_failed \/ handle_unbind
  \/ handle_unbind_resp \/ handle_unbind_resp_failed
  \/ \E op \in Operations : handle_enquire_link(op) \/ reject(op)
  \/ callback_returns

MachineSpec == init_states /\ [][MachineNext]_machineVars

-----------------------------------------------------------------------------

(* current_state_ never points to an object that was deleted, although every *)
(* transition deletes the object it leaves and the members still point to    *)
(* it: no order of PDUs and nested calls comes back to a state it has left,  *)
(* as long as the owner calls transition_to_connected in IDLE only.          *)
StateObjectLive == current \notin freed

(* When bind_success runs for a type of bind, the machine has been bound as   *)
(* that type: it still is, or a nested call has unbound or ended it since.   *)
(* It runs at most once in the life of a machine.  This is about the three   *)
(* types of bind: for any other, bind_success runs although nothing is bound. *)
AnnouncedWasBound ==
  /\ announced <= 1
  /\ \A i \in DOMAIN stack : stack[i].cb \in BindTypes =>
       BoundState(stack[i].cb) \in freed \cup {current}

(* A machine that has ended never comes to life again, whatever is received   *)
(* or called from a callback, under the same assumption on the owner as        *)
(* StateObjectLive.  ERROR_STATE is never left.  DISCONNECTED is left for       *)
(* ERROR_STATE alone, when a PDU that comes late is rejected: smpp_states.hpp   *)
(* calls it a terminal state too, and reject makes no exception for it.         *)
EndedStaysEnded ==
  [][(current \in Terminal) =>
       \/ current' = current
       \/ current = "DISCONNECTED" /\ current' = "ERROR_STATE"]_machineVars
=============================================================================
