--------------------------- MODULE ScoreListener ---------------------------
(***************************************************************************)
(* The daemon thread of each worker process that holds the LISTEN          *)
(* connection to the platform database and takes the documents the user    *)
(* scores off the tape.  Each row of score.score is inserted, and so       *)
(* notified, once: the notifications that wait for a thread are a set of   *)
(* rows.  They are handled in any order, since removals commute.           *)
(***************************************************************************)
EXTENDS TapeState

VARIABLES
  thread,  \* thread[w]: "starting", "listening" or "ended"
  inbox    \* inbox[w]: the rows whose notification waits for w's thread

listenerVars == <<thread, inbox>>

ListenerInit ==
  /\ thread = [w \in Workers |-> "starting"]
  /\ inbox = [w \in Workers |-> {}]

\* The trigger on score.score: pg_notify reaches whoever listens now.
Notify(row) ==
  inbox' = [w \in Workers |->
              IF thread[w] = "listening" THEN inbox[w] \cup {row} ELSE inbox[w]]

\* The thread has connected and executed LISTEN.
StartListening(w) ==
  /\ thread[w] = "starting"
  /\ thread' = [thread EXCEPT ![w] = "listening"]
  /\ UNCHANGED <<inbox, stateVars>>

HandleNotify(w) ==
  \E row \in inbox[w] :
    /\ RemoveEntry(row[1])
    /\ inbox' = [inbox EXCEPT ![w] = @ \ {row}]
    /\ UNCHANGED <<thread, configVars, lock, platformVars>>

\* The process dies or stops its listener: what waits for the thread is lost.
EndThread(w) ==
  /\ thread' = [thread EXCEPT ![w] = "ended"]
  /\ inbox' = [inbox EXCEPT ![w] = {}]

ListenerStep(w) == StartListening(w) \/ HandleNotify(w)

\* remove_entry raises: the error is logged and the notification forgotten.
HandleFails(w) ==
  \E row \in inbox[w] :
    /\ inbox' = [inbox EXCEPT ![w] = @ \ {row}]
    /\ UNCHANGED <<thread, stateVars>>

\* The connection is lost, or cannot be made: _run returns, the thread ends.
ConnectionLost(w) ==
  /\ thread[w] # "ended"
  /\ EndThread(w)
  /\ UNCHANGED stateVars

=============================================================================
