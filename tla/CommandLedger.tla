---------------------------- MODULE CommandLedger ----------------------------
(***************************************************************************)
(* What the command service promises, without its mechanism: a command     *)
(* that was accepted stays open until it gets one verdict, the verdict is  *)
(* never revised, and "acked" is only given to a command the relay has     *)
(* really carried out.  A command may be carried out after its verdict:    *)
(* the service stops waiting, it does not recall what it sent.             *)
(* DeviceCommand implements this specification (CommandLedger is its       *)
(* abstract specification, see Ledger there).                              *)
(***************************************************************************)
CONSTANT Command

VARIABLES
  ledger,    \* the verdict on each command
  executed   \* commands a relay has carried out

vars == <<ledger, executed>>

Verdict == {"acked", "failed", "timeout"}

Init ==
  /\ ledger = [c \in Command |-> "none"]
  /\ executed = {}

Open(c) ==
  /\ ledger[c] = "none"
  /\ ledger' = [ledger EXCEPT ![c] = "open"]
  /\ UNCHANGED executed

CarryOut(c) ==
  /\ ledger[c] # "none"
  /\ executed' = executed \cup {c}
  /\ UNCHANGED ledger

Close(c, verdict) ==
  /\ ledger[c] = "open"
  /\ verdict = "acked" => c \in executed
  /\ ledger' = [ledger EXCEPT ![c] = verdict]
  /\ UNCHANGED executed

Next ==
  \E c \in Command :
    \/ Open(c)
    \/ CarryOut(c)
    \/ \E verdict \in Verdict : Close(c, verdict)

Spec == Init /\ [][Next]_vars
=============================================================================
