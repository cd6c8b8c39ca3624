------------------------------- MODULE Attach -------------------------------
(***************************************************************************)
(* `__attach` on the node (commands/attach_local.rs): the clients attached *)
(* to a session are listed, told to detach, given half a second, and then  *)
(* the caller's own client attaches, once more if it is dropped. Several   *)
(* people attach at once; the server hands out client ids and may end.     *)
(***************************************************************************)

CONSTANTS Callers, ClientIds, None

VARIABLES
  alive,       \* the server
  clients,     \* client id -> whose client it is, or None
  at, listed, retried,  \* caller -> its next call, the ids it listed, its one retry
  since        \* history: caller -> the clients that came since it listed

vars == <<alive, clients, at, listed, retried, since>>

Attached == {i \in ClientIds : clients[i] # None}
Free == ClientIds \ Attached
Places == {"idle", "alive", "list", "detach", "client", "attached", "left", "done"}

TypeOK ==
  /\ alive \in BOOLEAN /\ clients \in [ClientIds -> Callers \cup {"old", None}]
  /\ at \in [Callers -> Places] /\ listed \in [Callers -> SUBSET ClientIds]
  /\ retried \in [Callers -> BOOLEAN] /\ since \in [Callers -> SUBSET (Callers \cup {"old"})]

Init ==
  /\ alive = TRUE /\ clients \in [ClientIds -> {"old", None}]
  /\ at = [c \in Callers |-> "idle"] /\ listed = [c \in Callers |-> {}]
  /\ retried = [c \in Callers |-> FALSE] /\ since = [c \in Callers |-> {}]

At(c, here, there) == at[c] = here /\ at' = [at EXCEPT ![c] = there]

Begin(c) == At(c, "idle", "alive") /\ UNCHANGED <<alive, clients, listed, retried, since>>

\* session_alive: no session, or a list-sessions that fails, is the end.
Alive(c) ==
  /\ \/ alive /\ At(c, "alive", "list")
     \/ At(c, "alive", "done")
  /\ UNCHANGED <<alive, clients, listed, retried, since>>

\* attached_clients, or none where list-clients fails: nothing to detach.
List(c) ==
  /\ \E found \in {Attached, {}} :
       /\ listed' = [listed EXCEPT ![c] = found]
       /\ At(c, "list", IF found = {} THEN "client" ELSE "detach")
       /\ since' = [since EXCEPT ![c] = {clients[i] : i \in Attached \ found}]
  /\ UNCHANGED <<alive, clients, retried>>

Gone(ids) == clients' = [i \in ClientIds |-> IF i \in ids THEN None ELSE clients[i]]

\* (mutant) Detaching tries until a server answers.
DetachInsists(c) ==
  /\ alive /\ At(c, "detach", "client") /\ Gone(listed[c])
  /\ UNCHANGED <<alive, listed, retried, since>>
\* (mutant) One client is told to detach.
DetachOne(c) ==
  /\ At(c, "detach", "client")
  /\ IF alive THEN \E i \in listed[c] : Gone({i}) ELSE UNCHANGED clients
  /\ UNCHANGED <<alive, listed, retried, since>>

\* DetachSession and the half second; a server that went away is not waited for.
Detach(c) ==
  /\ At(c, "detach", "client")
  /\ IF alive THEN Gone(listed[c]) ELSE UNCHANGED clients
  /\ UNCHANGED <<alive, listed, retried, since>>

Client(c) ==
  /\ IF alive /\ Free # {}
     THEN /\ At(c, "client", "attached")
          /\ \E i \in Free : clients' = [clients EXCEPT ![i] = c]
          /\ since' = [d \in Callers |-> IF d = c THEN since[d] ELSE since[d] \cup {c}]
     ELSE At(c, "client", "left") /\ UNCHANGED <<clients, since>>
  /\ UNCHANGED <<alive, listed, retried>>

Mine(c) == {i \in ClientIds : clients[i] = c}

\* The client exits: with 0 when it was detached, the user left or the session
\* is over, with another code when it was dropped.
Exit(c) ==
  /\ at[c] = "attached" /\ Gone(Mine(c))
  /\ \/ At(c, "attached", "done")
     \/ Mine(c) # {} /\ At(c, "attached", "left")
  /\ UNCHANGED <<alive, listed, retried, since>>

\* It attaches once more if the session lives: "once only".
Left(c) ==
  /\ \/ At(c, "left", "done") /\ UNCHANGED retried
     \/ ~retried[c] /\ alive /\ At(c, "left", "client") /\ retried' = [retried EXCEPT ![c] = TRUE]
  /\ UNCHANGED <<alive, clients, listed, since>>

SessionEnds ==
  /\ alive /\ alive' = FALSE /\ Gone(ClientIds)
  /\ UNCHANGED <<at, listed, retried, since>>

Caller(c) == Begin(c) \/ Alive(c) \/ List(c) \/ Detach(c) \/ Client(c) \/ Exit(c) \/ Left(c)
Next == (\E c \in Callers : Caller(c)) \/ SessionEnds

\* A zellij command is waited for, which has no timeout; the connection that
\* detaches the others is the caller's own, and fails where there is no server.
InCall(c) == at[c] \in {"alive", "list", "client", "left"}

\* A client stays for as long as it is attached.
CallerMoves(c) == ~InCall(c) /\ Mine(c) = {} /\ at[c] # "idle" /\ Caller(c)
Fairness == \A c \in Callers : WF_vars(CallerMoves(c))
Spec == Init /\ [][Next]_vars /\ Fairness

----------------------------------------------------------------------------
\* attach_local.rs:79-90: whoever has attached is the only client, but for
\* those that came, or stayed because list-clients failed, after it listed.
NewcomerIsAlone ==
  \A c \in Callers : Mine(c) # {} => {clients[i] : i \in Attached} \subseteq {c} \cup since[c]

\* attach_local.rs:97-99: a server that goes away hangs no attach, if it hangs
\* no zellij command.
Served == alive
Settled(c) == at[c] \in {"idle", "done"}
NoAttachHangs == \A c \in Callers : []<>~InCall(c) => (~Served ~> Settled(c))
=============================================================================
