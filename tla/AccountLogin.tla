---------------------------- MODULE AccountLogin ----------------------------
(* Logins of Telegram user accounts in the web interface: the flows of     *)
(* telegramMultiAccountLoginFlows.ts by phone or QR code, whose clients    *)
(* live in memory, and the adapter that writes an authorized session into  *)
(* the row of its account.  All flows belong to one owner; requests for a  *)
(* flow may overlap.                                                       *)
EXTENDS Naturals, FiniteSets

CONSTANTS
    Phones, Qrs,    \* flows, by kind
    Pinned,         \* flows that renew the login of the account "own"
    Requests,       \* requests that may be under way at once
    MaxErrors,      \* wrong codes that end a flow
    MaxTroubles     \* bound: errors, cancellations and expiries

VARIABLES
    flow,       \* of each flow: in flows?, status, errors, identity
    client,     \* of each flow: its client
    lock,       \* of each QR flow: is its operation under way?
    request,    \* of each request: its place, its flow and what it closes
    session,    \* of each account: the flow whose session its row holds
    wrote,      \* flows whose session was written
    troubles

vars == <<flow, client, lock, request, session, wrote, troubles>>
rows == <<session, wrote>>

Flows == Phones \cup Qrs
Accounts == {"own", "other"}
Nobody == "nobody"

Idle == [at |-> "none", flow |-> Nobody, rest |-> {}, starts |-> FALSE]

Live(f) == flow[f].live
Held(f) == client[f] = "held"
Unclosed == {f \in Flows : client[f] \in {"closing", "stuck"}}

Trouble == troubles < MaxTroubles /\ troubles' = troubles + 1

F(r) == request[r].flow
At(r, at) == request' = [request EXCEPT ![r].at = at]
End(r) == request' = [request EXCEPT ![r] = Idle]

(* detachAndClose up to the destruction of the client: the record of the   *)
(* flow forgets it.                                                        *)
Detached(f) ==
    client' = [client EXCEPT ![f] = IF @ \in {"open", "held"} THEN "closing" ELSE @]

Unlisted(f) == flow' = [flow EXCEPT ![f].live = FALSE]

(* Mutant of Dropped: the client of the flow is forgotten.                 *)
DroppedOpen(f) == Unlisted(f) /\ UNCHANGED client

(* deleteAndClose.                                                         *)
Dropped(f) == Unlisted(f) /\ Detached(f)

-----------------------------------------------------------------------------
(* startPhone and startQr.                                                 *)

(* The account to renew must exist, and a client whose closing is not      *)
(* confirmed forbids any further login; then the owner's flows go.         *)
StartLogin(r) ==
    \E f \in Flows :
        /\ request[r] = Idle /\ client[f] = "none"
        /\ \A q \in Requests : F(q) # f
        /\ f \in Pinned => session["own"] # "deleted"
        /\ Unclosed = {}
        /\ request' = [request EXCEPT ![r] =
               [at |-> "clearing", flow |-> f, starts |-> TRUE,
                rest |-> {g \in Flows : Live(g)}]]
        /\ UNCHANGED <<flow, client, lock, rows, troubles>>

(* removeOwnerFlows waits for one closing after the other.                 *)
Clear(r) ==
    /\ request[r].at = "clearing"
    /\ \A f \in Flows \ request[r].rest : client[f] # "closing"
    /\ \/ \E g \in request[r].rest :
              Dropped(g) /\ request' = [request EXCEPT ![r].rest = @ \ {g}]
       \/ /\ request[r].rest = {}
          /\ client' = [client EXCEPT ![F(r)] = "open"]
          /\ At(r, "connecting") /\ UNCHANGED flow
    /\ UNCHANGED <<lock, rows, troubles>>

(* A phone flow is there when its code was sent, a QR flow before it asks  *)
(* for its first token.                                                    *)
Connect(r) ==
    /\ request[r].at = "connecting"
    /\ flow' = [flow EXCEPT ![F(r)].live = TRUE,
           ![F(r)].status = IF F(r) \in Qrs THEN "pending" ELSE "code"]
    /\ client' = [client EXCEPT ![F(r)] = "held"]
    /\ IF F(r) \in Qrs THEN At(r, "advance") ELSE End(r)
    /\ UNCHANGED <<lock, rows, troubles>>

ConnectFails(r) ==
    /\ request[r].at = "connecting" /\ Trouble
    /\ Detached(F(r))
    /\ End(r)
    /\ UNCHANGED <<flow, lock, rows>>

-----------------------------------------------------------------------------
(* advanceQr, one at a time for a flow: for a start, a refresh or an event *)
(* of the client.                                                          *)

Advance(r) ==
    \E f \in Qrs :
        /\ request[r] = Idle /\ Live(f) /\ flow[f].status = "pending"
        /\ request' = [request EXCEPT ![r] = [Idle EXCEPT !.at = "advance", !.flow = f]]
        /\ UNCHANGED <<flow, client, lock, rows, troubles>>

Export(r) ==
    /\ request[r].at = "advance" /\ ~lock[F(r)]
    /\ IF flow[F(r)].status # "pending" \/ ~Live(F(r))
       THEN End(r) /\ UNCHANGED lock
       ELSE IF Held(F(r)) THEN At(r, "export") /\ lock' = [lock EXCEPT ![F(r)] = TRUE]
       ELSE At(r, "failing") /\ UNCHANGED lock
    /\ UNCHANGED <<flow, client, rows, troubles>>

(* Telegram answers with a token to show, with the wish for a password, or *)
(* with the authorization.                                                 *)
Exported(r) ==
    /\ request[r].at = "export"
    /\ \/ /\ flow' \in {flow, [flow EXCEPT ![F(r)].status = "password"]}
          /\ End(r) /\ lock' = [lock EXCEPT ![F(r)] = FALSE]
       \/ At(r, "identify") /\ UNCHANGED <<lock, flow>>
    /\ UNCHANGED <<client, rows, troubles>>

ExportFails(r) ==
    /\ request[r].at = "export" /\ Trouble
    /\ At(r, "failing") /\ lock' = [lock EXCEPT ![F(r)] = FALSE]
    /\ UNCHANGED <<flow, client, rows>>

(* A start forgets its flow; otherwise failQr shows the error of a flow    *)
(* that is neither gone nor complete.                                      *)
FailQr(r) ==
    /\ request[r].at = "failing"
    /\ IF request[r].starts THEN Dropped(F(r))
       ELSE IF ~Live(F(r)) \/ flow[F(r)].status = "complete"
       THEN UNCHANGED <<flow, client>>
       ELSE flow' = [flow EXCEPT ![F(r)].status = "error"] /\ Detached(F(r))
    /\ End(r)
    /\ UNCHANGED <<lock, rows, troubles>>

-----------------------------------------------------------------------------
(* submitCode and submitPassword.                                          *)

Submit(r) ==
    \E f \in Flows :
        /\ request[r] = Idle /\ Live(f) /\ flow[f].errors < MaxErrors
        /\ \/ flow[f].status = "password"
           \/ f \in Phones /\ flow[f].status = "code"
        /\ Held(f) \/ f \in Qrs
        /\ request' = [request EXCEPT ![r] = [Idle EXCEPT
               !.at = IF Held(f) THEN "signing" ELSE "failing", !.flow = f]]
        /\ UNCHANGED <<flow, client, lock, rows, troubles>>

(* The code or the password is right, or a password is wanted besides.     *)
Signed(r) ==
    /\ request[r].at = "signing"
    /\ \/ At(r, "identify") /\ UNCHANGED flow
       \/ /\ F(r) \in Phones
          /\ flow' = [flow EXCEPT ![F(r)].status = "password"]
          /\ End(r)
    /\ UNCHANGED <<client, lock, rows, troubles>>

(* It is wrong: the last error ends the flow.                              *)
Wrong(r) ==
    LET over == flow[F(r)].errors + 1 >= MaxErrors
    IN /\ request[r].at = "signing" /\ Trouble
       /\ flow' = [flow EXCEPT ![F(r)].errors = @ + 1,
                               ![F(r)].live = IF over THEN FALSE ELSE @]
       /\ IF over THEN Detached(F(r)) ELSE UNCHANGED client
       /\ End(r)
       /\ UNCHANGED <<lock, rows>>

-----------------------------------------------------------------------------
(* authorize and what its callers do with it.                              *)

(* The identity is read from Telegram.                                     *)
Identify(r) ==
    /\ request[r].at = "identify"
    /\ IF Held(F(r))
       THEN /\ \E who \in Accounts :
                   /\ flow[F(r)].account \in {Nobody, who}
                   /\ flow' = [flow EXCEPT ![F(r)].account = who]
            /\ At(r, "authorize")
       ELSE At(r, "refused") /\ UNCHANGED flow
    /\ UNCHANGED <<client, lock, rows, troubles>>

(* The flow is looked up once more, and a renewal wants the same identity. *)
Permitted(f) ==
    /\ Live(f) /\ flow[f].errors < MaxErrors
    /\ f \in Pinned => flow[f].account = "own"

Authorize(r) ==
    /\ request[r].at = "authorize"
    /\ At(r, IF Permitted(F(r)) THEN "persist" ELSE "refused")
    /\ UNCHANGED <<flow, client, lock, rows, troubles>>

(* onAuthorized writes the row: upsertAccount, or reauthenticateAccount of *)
(* an account that must still be there.                                    *)
Persist(r) ==
    LET who == IF F(r) \in Pinned THEN "own" ELSE flow[F(r)].account
    IN /\ request[r].at = "persist"
       /\ IF F(r) \in Pinned /\ session["own"] = "deleted"
          THEN At(r, "refused") /\ UNCHANGED rows
          ELSE /\ session' = [session EXCEPT ![who] = F(r)]
               /\ wrote' = wrote \cup {F(r)}
               /\ At(r, "activate")
       /\ UNCHANGED <<flow, client, lock, troubles>>

(* The pool activates the account, the access sweep runs; either may fail  *)
(* with the row written.  A finished phone flow is forgotten.              *)
Activate(r) ==
    /\ request[r].at = "activate"
    /\ \/ /\ flow' = IF F(r) \in Phones
                     THEN [flow EXCEPT ![F(r)].live = FALSE] ELSE flow
          /\ At(r, "closing") /\ UNCHANGED troubles
       \/ Trouble /\ At(r, "closingFailed") /\ UNCHANGED flow
    /\ Detached(F(r))
    /\ UNCHANGED <<lock, rows>>

Refused(r) ==
    /\ request[r].at = "refused"
    /\ Detached(F(r)) /\ At(r, "closingFailed")
    /\ UNCHANGED <<flow, lock, rows, troubles>>

(* The client is closed whatever came of it; then a QR flow is complete,   *)
(* or shows what went wrong.                                               *)
Settle(r) ==
    /\ request[r].at \in {"closing", "closingFailed"} /\ client[F(r)] # "closing"
    /\ IF request[r].at = "closing" /\ client[F(r)] # "stuck"
       THEN /\ flow' = IF F(r) \in Qrs
                       THEN [flow EXCEPT ![F(r)].status = "complete"] ELSE flow
            /\ End(r)
       ELSE /\ UNCHANGED flow
            /\ IF F(r) \in Qrs THEN At(r, "failing") ELSE End(r)
    /\ lock' = [lock EXCEPT ![F(r)] = FALSE]
    /\ UNCHANGED <<client, rows, troubles>>

-----------------------------------------------------------------------------

Destroyed(f) ==
    /\ client[f] = "closing"
    /\ \/ client' = [client EXCEPT ![f] = "closed"] /\ UNCHANGED troubles
       \/ client' = [client EXCEPT ![f] = "stuck"] /\ Trouble
    /\ UNCHANGED <<flow, lock, request, rows>>

(* cancel, and the timer of the flow, which also stands for the expiry     *)
(* that a request finds.                                                   *)
Expire(f) ==
    /\ Live(f) /\ Trouble
    /\ Dropped(f)
    /\ UNCHANGED <<lock, request, rows>>

DeleteAccount ==
    /\ session["own"] # "deleted" /\ Trouble
    /\ session' = [session EXCEPT !["own"] = "deleted"]
    /\ UNCHANGED <<flow, client, lock, request, wrote>>

Init ==
    /\ flow = [f \in Flows |-> [live |-> FALSE, status |-> "none", errors |-> 0,
                                account |-> Nobody]]
    /\ client = [f \in Flows |-> "none"]
    /\ lock = [f \in Flows |-> FALSE]
    /\ request = [r \in Requests |-> Idle]
    /\ session = [a \in Accounts |-> Nobody] /\ wrote = {}
    /\ troubles = 0

Request(r) ==
    \/ StartLogin(r) \/ Clear(r) \/ Connect(r) \/ ConnectFails(r)
    \/ Advance(r) \/ Export(r) \/ Exported(r) \/ ExportFails(r) \/ FailQr(r)
    \/ Submit(r) \/ Signed(r) \/ Wrong(r) \/ Identify(r) \/ Authorize(r)
    \/ Persist(r) \/ Activate(r) \/ Refused(r) \/ Settle(r)

Next ==
    \/ \E r \in Requests : Request(r)
    \/ \E f \in Flows : Destroyed(f) \/ Expire(f)
    \/ DeleteAccount

Spec == Init /\ [][Next]_vars

-----------------------------------------------------------------------------
(* The types of the variables.                                             *)
TypeOK ==
    /\ \A f \in Flows :
           /\ flow[f].status \in {"none", "code", "password", "pending",
                                  "complete", "error"}
           /\ flow[f].errors \in 0..MaxTroubles
           /\ flow[f].account \in Accounts \cup {Nobody}
           /\ client[f] \in {"none", "open", "held", "closing", "stuck", "closed"}
    /\ \A a \in Accounts : session[a] \in Flows \cup {Nobody, "deleted"}
    /\ wrote \subseteq Flows

(* No connection to Telegram is lost: an open client belongs to a request  *)
(* that connects, to a flow in the map, or to a request that will close it.*)
ClientsOwned ==
    \A f \in Flows : client[f] \in {"open", "held"} =>
        Live(f) \/ \E r \in Requests : F(r) = f

(* A session is only ever written into the row of the account it belongs   *)
(* to, whatever was pinned, cancelled or deleted while it was read.        *)
OwnSessions ==
    \A a \in Accounts : session[a] \in Flows => flow[session[a]].account = a

(* A QR flow shows success only after its session was written.             *)
SuccessIsReal ==
    \A f \in Qrs : flow[f].status = "complete" => f \in wrote

LoginKept == ClientsOwned /\ OwnSessions /\ SuccessIsReal
=============================================================================
