------------------------- MODULE ConnectionLifecycle -------------------------
(***************************************************************************)
(* What spec.md section 3 promises of a Connection: born Idle, entered    *)
(* once into Listening or Connecting, Connected for outgoing and accepted  *)
(* connections, any state may move to Closing, Closing is terminal, and a *)
(* connection is in the handle table exactly while it is alive and its     *)
(* close has not completed.  Creation through the facade is atomic with    *)
(* the first operation, so Idle is never observed between steps.           *)
(***************************************************************************)
CONSTANTS Conns

VARIABLES cstate, registered

Live == {"LISTENING", "CONNECTING", "CONNECTED", "CLOSING"}

Init ==
    /\ cstate = [c \in Conns |-> "None"]
    /\ registered = {}

(* listen or connect on a new connection. *)
Open(c) ==
    /\ cstate[c] = "None"
    /\ \E s \in {"LISTENING", "CONNECTING"} : cstate' = [cstate EXCEPT ![c] = s]
    /\ registered' = registered \cup {c}

(* A listener's accept loop creates a batch of established connections. *)
Accept(S) ==
    /\ \E l \in Conns : cstate[l] = "LISTENING"
    /\ \A c \in S : cstate[c] = "None"
    /\ cstate' = [c \in Conns |-> IF c \in S THEN "CONNECTED" ELSE cstate[c]]
    /\ registered' = registered \cup S

Establish(c) ==
    /\ cstate[c] = "CONNECTING"
    /\ cstate' = [cstate EXCEPT ![c] = "CONNECTED"]
    /\ UNCHANGED registered

StartClose(c) ==
    /\ cstate[c] \in Live
    /\ cstate' = [cstate EXCEPT ![c] = "CLOSING"]
    /\ UNCHANGED registered

Release(c) ==
    /\ cstate[c] \in Live
    /\ cstate' = [cstate EXCEPT ![c] = "Gone"]
    /\ registered' = registered \ {c}

Next ==
    \/ \E c \in Conns : Open(c) \/ Establish(c) \/ StartClose(c) \/ Release(c)
    \/ \E S \in SUBSET Conns : S # {} /\ Accept(S)

Spec == Init /\ [][Next]_<<cstate, registered>>

=============================================================================
