-------------------------------- MODULE Command --------------------------------
(****************************************************************************)
(* What a connection promises the commands it is handed: each gets a stream *)
(* of its own and keeps it, none is dropped, and each is answered at most   *)
(* once, with an HTTP response or with an error.  Connection.tla implements *)
(* this as long as the server respects the life cycle of streams.           *)
(****************************************************************************)
CONSTANTS
  Commands,
  Carriers,   \* the streams
  NoCarrier   \* of a command that is not handed over yet, no carrier

VARIABLES
  fresh,      \* the commands that are not handed over yet
  carrier,    \* the stream of each command
  answer      \* the answers of each command

vars == <<fresh, carrier, answer>>

Init ==
  /\ fresh = Commands
  /\ carrier = [c \in Commands |-> NoCarrier]
  /\ answer = [c \in Commands |-> << >>]

(* Nobody else uses the stream, be it a new one or a push promise.          *)
HandOver(c, s) ==
  /\ c \in fresh
  /\ \A d \in Commands : carrier[d] # s
  /\ fresh' = fresh \ {c}
  /\ carrier' = [carrier EXCEPT ![c] = s]

Answer(c, outcome) ==
  /\ answer[c] = << >>
  /\ answer' = [answer EXCEPT ![c] = <<outcome>>]

Next ==
  \E c \in Commands :
     \/ \E s \in Carriers : HandOver(c, s) /\ UNCHANGED answer
     \/ \E outcome \in {"ok", "error"} :
          \/ c \notin fresh /\ Answer(c, outcome) /\ UNCHANGED <<fresh, carrier>>
          \/ \E s \in Carriers : HandOver(c, s) /\ Answer(c, outcome)

Spec == Init /\ [][Next]_vars
================================================================================
