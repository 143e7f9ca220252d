-------------------------------- MODULE Lead --------------------------------
(***************************************************************************)
(* The lead and consent service: clients post forms and post them again    *)
(* when no answer comes, request threads of the server ingest them into    *)
(* the ledger in one transaction each and notify the owner afterwards; the *)
(* server can be killed between any two steps.                             *)
(*                                                                         *)
(* Abstractions.  A form that reaches the ledger is valid and normalised;  *)
(* its payload hash is the form.  BEGIN IMMEDIATE makes `ingest` one step; *)
(* its audit event carries the receipt and is kept as the order of the     *)
(* receipts.  The limiters, authentication and a busy database appear only *)
(* as a request that is refused without reaching the ledger.               *)
(***************************************************************************)
EXTENDS Naturals, Sequences, FiniteSets

CONSTANTS
    Clients,      \* browsers and servers that post forms
    Threads,      \* request threads
    Emails, Phones,
    Keys,         \* idempotency keys
    Posted,       \* the forms each client wants to post, in order
    MaxTroubles   \* bound: refusals, lost answers and kills

None == "none"
Forms == {f \in [email : Emails \union {None}, phone : Phones \union {None}, key : Keys] :
            f.email # None \/ f.phone # None}

ASSUME LeadAssumption ==
    /\ DOMAIN Posted = Clients /\ \A c \in Clients : Posted[c] \in Seq(Forms)
    /\ MaxTroubles \in Nat

VARIABLES
    contacts,  \* the table: email and phone of each contact
    receipts,  \* the table: contact and form of each recorded key, in order
    request,   \* what each thread is doing
    client,    \* how far each client is, and the answers it got
    notified,  \* keys whose notification was sent, in order
    troubles

vars == <<contacts, receipts, request, client, notified, troubles>>

Idle == [pc |-> "idle"]

Init ==
    /\ contacts = <<>> /\ receipts = <<>>
    /\ request = [t \in Threads |-> Idle]
    /\ client = [c \in Clients |-> [pc |-> "posting", next |-> 1, answers |-> <<>>]]
    /\ notified = <<>> /\ troubles = 0

Form(c) == Posted[c][client[c].next]
Wanting(c) == client[c].next <= Len(Posted[c])

(* do_POST is entered by a free thread.                                    *)
Post(c, t) ==
    /\ Wanting(c) /\ client[c].pc = "posting" /\ request[t] = Idle
    /\ request' = [request EXCEPT ![t] = [pc |-> "received", client |-> c, form |-> Form(c)]]
    /\ client' = [client EXCEPT ![c].pc = t]
    /\ UNCHANGED <<contacts, receipts, notified, troubles>>

(* A client stops waiting; its request goes on without it.                 *)
GiveUpWaiting(c) ==
    /\ client[c].pc \in Threads /\ troubles < MaxTroubles
    /\ client' = [client EXCEPT ![c].pc = "posting"]
    /\ troubles' = troubles + 1
    /\ UNCHANGED <<contacts, receipts, request, notified>>

Waiting(t) == {c \in Clients : client[c].pc = t}

(* Over the limit, not allowed or the database is busy: 403, 429 or 500.   *)
Refuse(t) ==
    /\ request[t].pc = "received" /\ troubles < MaxTroubles
    /\ request' = [request EXCEPT ![t] = Idle]
    /\ client' = [c \in Clients |->
            IF c \in Waiting(t) THEN [client[c] EXCEPT !.pc = "posting"] ELSE client[c]]
    /\ troubles' = troubles + 1
    /\ UNCHANGED <<contacts, receipts, notified>>

(* The answer reaches the client if it still waits on this connection.     *)
Answering(t, answer) ==
    [c \in Clients |->
        IF c \in Waiting(t)
        THEN [pc |-> "posting", next |-> client[c].next + 1,
              answers |-> Append(client[c].answers, answer)]
        ELSE client[c]]

Recorded(key) == {i \in DOMAIN receipts : receipts[i].form.key = key}
WithEmail(f) == {i \in DOMAIN contacts : f.email # None /\ contacts[i].email = f.email}
WithPhone(f) == {i \in DOMAIN contacts : f.phone # None /\ contacts[i].phone = f.phone}
Matched(f) == WithEmail(f) \union WithPhone(f)

Differs(old, new) == old # None /\ new # None /\ old # new

(* ConflictError: nothing is written.                                      *)
ConflictOfKeys(f) == \E i \in Recorded(f.key) : receipts[i].form # f

ConflictOfTwoContacts(f) ==
    Recorded(f.key) = {} /\ Cardinality(Matched(f)) > 1

ConflictOfContacts(f) ==
    /\ Recorded(f.key) = {}
    /\ \/ Cardinality(Matched(f)) > 1
       \/ \E i \in Matched(f) : Differs(contacts[i].email, f.email)
                                \/ Differs(contacts[i].phone, f.phone)

Conflict(t) ==
    /\ request[t].pc = "received"
    /\ LET f == request[t].form
       IN  ConflictOfKeys(f) \/ ConflictOfContacts(f)
    /\ client' = Answering(t, [status |-> "conflict", form |-> request[t].form])
    /\ request' = [request EXCEPT ![t] = Idle]
    /\ UNCHANGED <<contacts, receipts, notified, troubles>>

ReplayNotified(t) ==
    /\ request[t].pc = "received"
    /\ \E i \in Recorded(request[t].form.key) : receipts[i].form = request[t].form
    /\ request' = [request EXCEPT ![t].pc = "committed"]
    /\ UNCHANGED <<contacts, receipts, client, notified, troubles>>

ReplayRefused(t) ==
    /\ request[t].pc = "received"
    /\ \E i \in Recorded(request[t].form.key) : receipts[i].form = request[t].form
    /\ request' = [request EXCEPT ![t] = Idle]
    /\ client' = [c \in Clients |->
            IF c \in Waiting(t) THEN [client[c] EXCEPT !.pc = "posting"] ELSE client[c]]
    /\ UNCHANGED <<contacts, receipts, notified, troubles>>

(* The key is recorded with the same payload: its receipt is the answer.   *)
Replay(t) ==
    /\ request[t].pc = "received"
    /\ \E i \in Recorded(request[t].form.key) : receipts[i].form = request[t].form
    /\ request' = [request EXCEPT ![t].pc = "answered"]
    /\ UNCHANGED <<contacts, receipts, client, notified, troubles>>

Merged(old, f) ==
    [email |-> IF old.email # None THEN old.email ELSE f.email,
     phone |-> IF old.phone # None THEN old.phone ELSE f.phone]

Capture(t) ==
    /\ request[t].pc = "received"
    /\ LET f == request[t].form
       IN  /\ Recorded(f.key) = {} /\ ~ConflictOfContacts(f)
           /\ IF Matched(f) = {}
              THEN /\ contacts' = Append(contacts, [email |-> f.email, phone |-> f.phone])
                   /\ receipts' = Append(receipts, [contact |-> Len(contacts) + 1, form |-> f])
              ELSE \E i \in Matched(f) :
                   /\ contacts' = [contacts EXCEPT ![i] = Merged(@, f)]
                   /\ receipts' = Append(receipts, [contact |-> i, form |-> f])
    /\ request' = [request EXCEPT ![t].pc = "committed"]
    /\ UNCHANGED <<client, notified, troubles>>

(* send, which reports a failure and never raises.                         *)
Notify(t) ==
    /\ request[t].pc = "committed"
    /\ \/ notified' = Append(notified, request[t].form.key)
       \/ UNCHANGED notified
    /\ request' = [request EXCEPT ![t].pc = "answered"]
    /\ UNCHANGED <<contacts, receipts, client, troubles>>

Answer(t) ==
    /\ request[t].pc = "answered"
    /\ client' = Answering(t, [status |-> "ok", form |-> request[t].form])
    /\ request' = [request EXCEPT ![t] = Idle]
    /\ UNCHANGED <<contacts, receipts, notified, troubles>>

(* The server dies and is started again: every connection is lost.         *)
Kill ==
    /\ troubles < MaxTroubles
    /\ request' = [t \in Threads |-> Idle]
    /\ client' = [c \in Clients |-> [client[c] EXCEPT !.pc = "posting"]]
    /\ troubles' = troubles + 1
    /\ UNCHANGED <<contacts, receipts, notified>>

Serve(t) == Conflict(t) \/ Replay(t) \/ Capture(t) \/ Notify(t) \/ Answer(t)

Next ==
    \/ \E c \in Clients : (\E t \in Threads : Post(c, t)) \/ GiveUpWaiting(c)
    \/ \E t \in Threads : Refuse(t) \/ Serve(t)
    \/ Kill

(* A thread that has a request goes on with it; a client without an answer *)
(* posts again.                                                            *)
Fairness ==
    /\ \A t \in Threads : WF_vars(Serve(t))
    /\ \A c \in Clients : SF_vars(\E t \in Threads : Post(c, t))

Spec == Init /\ [][Next]_vars /\ Fairness
-----------------------------------------------------------------------------
(* Whatever is merged into a contact later, by forms that arrive in any    *)
(* order and more than once, the contact a receipt names still has the     *)
(* address and the number its consent was given with (lead_ledger.py, the  *)
(* three conflicts of ingest and the COALESCE-like update).                *)
ContactsKeepConsent ==
    \A i \in DOMAIN receipts :
        LET at == contacts[receipts[i].contact]
            f == receipts[i].form
        IN  /\ f.email # None => at.email = f.email
            /\ f.phone # None => at.phone = f.phone

(* A client that is told ok has a receipt for exactly what it posted, even *)
(* when the answer is a replay to the second of two requests that were in  *)
(* the server at once; and the owner is told of a lead at most once and    *)
(* never of one that was not recorded.                                     *)
AnswersAreReceipts ==
    /\ \A c \in Clients : \A i \in DOMAIN client[c].answers :
        client[c].answers[i].status = "ok" =>
            \E j \in DOMAIN receipts : receipts[j].form = client[c].answers[i].form
    /\ \A i \in DOMAIN notified :
        /\ \E j \in DOMAIN receipts : receipts[j].form.key = notified[i]
        /\ \A j \in DOMAIN notified : notified[i] = notified[j] => i = j

(* Every client is answered, however often it is refused, loses its        *)
(* connection or the server is killed under its request.                   *)
ClientsAnswered == \A c \in Clients : <>~Wanting(c)
=============================================================================
