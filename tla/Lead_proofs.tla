----------------------------- MODULE Lead_proofs -----------------------------
(***************************************************************************)
(* Theorems about Lead for any clients, request threads, forms and number  *)
(* of troubles: consent stays with what it was given for, and an answer or *)
(* a notification stands on a receipt.                                     *)
(***************************************************************************)
EXTENDS Lead, TLAPS

Contact == [email : Emails \union {None}, phone : Phones \union {None}]
Receipt == [contact : Nat, form : Forms]
Request == [pc : {"received", "committed", "answered"}, client : Clients, form : Forms]
ClientState == [pc : Threads \union {"posting"}, next : Nat \ {0},
                answers : Seq([status : {"ok", "conflict"}, form : Forms])]

LeadTypes ==
    /\ contacts \in Seq(Contact)
    /\ receipts \in Seq(Receipt)
    /\ \A i \in DOMAIN receipts : receipts[i].contact \in DOMAIN contacts
    /\ request \in [Threads -> {Idle} \union Request]
    /\ client \in [Clients -> ClientState]
    /\ notified \in Seq(Keys)

HasReceipt(f) == \E j \in DOMAIN receipts : receipts[j].form = f

(* A thread past the transaction holds a form with a receipt.              *)
ServedHasReceipt ==
    \A t \in Threads : request[t].pc \in {"committed", "answered"} => HasReceipt(request[t].form)

(* A thread that is about to notify is the only one to do so for its key.  *)
OneNotifier ==
    \A t \in Threads : request[t].pc = "committed" =>
        /\ \A i \in DOMAIN notified : notified[i] # request[t].form.key
        /\ \A u \in Threads \ {t} :
            request[u].pc = "committed" => request[u].form.key # request[t].form.key

LeadInv ==
    /\ LeadTypes
    /\ ContactsKeepConsent
    /\ ServedHasReceipt
    /\ OneNotifier
    /\ AnswersAreReceipts

-----------------------------------------------------------------------------
(* What a thread holds while it serves a request.                          *)
LEMMA Serving ==
    ASSUME LeadTypes, NEW t \in Threads, request[t].pc # "idle"
    PROVE  request[t] \in Request /\ request[t].form \in Forms
BY DEF LeadTypes, Request, Idle

LEMMA FormFields ==
    ASSUME NEW f \in Forms
    PROVE  /\ f.email \in Emails \union {None} /\ f.phone \in Phones \union {None}
           /\ f.key \in Keys
BY DEF Forms

(* What the clients get from an answer: those that wait, one more.         *)
LEMMA AnswerType ==
    ASSUME LeadTypes, NEW t \in Threads,
           NEW answer \in [status : {"ok", "conflict"}, form : Forms]
    PROVE  Answering(t, answer) \in [Clients -> ClientState]
<1>1. ASSUME NEW c \in Clients
      PROVE  [pc |-> "posting", next |-> client[c].next + 1,
              answers |-> Append(client[c].answers, answer)] \in ClientState
    <2>1. client[c] \in ClientState
        BY DEF LeadTypes
    <2>2. Append(client[c].answers, answer) \in Seq([status : {"ok", "conflict"}, form : Forms])
        BY <2>1 DEF ClientState
    <2>3. client[c].next + 1 \in Nat \ {0}
        BY <2>1 DEF ClientState
    <2>4. QED
        BY <2>2, <2>3 DEF ClientState
<1>2. QED
    BY <1>1 DEF Answering, LeadTypes

(* Clients that are told to post again.                                    *)
LEMMA PostingAgain ==
    ASSUME LeadTypes, NEW c \in Clients
    PROVE  /\ client[c] \in ClientState
           /\ [client[c] EXCEPT !.pc = "posting"] \in ClientState
           /\ [client[c] EXCEPT !.pc = "posting"].answers = client[c].answers
BY DEF LeadTypes, ClientState

LEMMA MergedContact ==
    ASSUME NEW old \in Contact, NEW f \in Forms
    PROVE  Merged(old, f) \in Contact
BY FormFields DEF Contact, Merged

-----------------------------------------------------------------------------
(* The types, action by action.                                            *)
LEMMA TypesStep ==
    ASSUME LeadTypes, [Next]_vars
    PROVE  LeadTypes'
<1>1. ASSUME NEW c \in Clients, NEW t \in Threads, Post(c, t) PROVE LeadTypes'
    <2>1. Form(c) \in Forms
        <3>1. Posted[c] \in Seq(Forms)
            BY LeadAssumption
        <3>2. client[c].next \in 1 .. Len(Posted[c])
            BY <1>1, <3>1 DEF Post, Wanting, LeadTypes, ClientState
        <3>3. QED
            BY <3>1, <3>2 DEF Form
    <2>2. [pc |-> "received", client |-> c, form |-> Form(c)] \in Request
        BY <2>1 DEF Request
    <2>3. request' \in [Threads -> {Idle} \union Request]
        BY <1>1, <2>2 DEF Post, LeadTypes
    <2>4. client' \in [Clients -> ClientState]
        BY <1>1 DEF Post, LeadTypes, ClientState
    <2>5. QED
        BY <1>1, <2>3, <2>4 DEF Post, LeadTypes
<1>2. ASSUME NEW c \in Clients, GiveUpWaiting(c) PROVE LeadTypes'
    <2>1. client' \in [Clients -> ClientState]
        BY <1>2, PostingAgain DEF GiveUpWaiting, LeadTypes
    <2>2. QED
        BY <1>2, <2>1 DEF GiveUpWaiting, LeadTypes
<1>3. ASSUME NEW t \in Threads, Refuse(t) PROVE LeadTypes'
    <2>1. client' \in [Clients -> ClientState]
        BY <1>3, PostingAgain DEF Refuse, LeadTypes
    <2>2. QED
        BY <1>3, <2>1 DEF Refuse, LeadTypes
<1>4. ASSUME NEW t \in Threads, Conflict(t) PROVE LeadTypes'
    <2>1. request[t].form \in Forms
        BY <1>4, Serving DEF Conflict
    <2>2. client' \in [Clients -> ClientState]
        BY <1>4, <2>1, AnswerType DEF Conflict
    <2>3. QED
        BY <1>4, <2>2 DEF Conflict, LeadTypes
<1>5. ASSUME NEW t \in Threads, Replay(t) PROVE LeadTypes'
    <2>1. [request[t] EXCEPT !.pc = "answered"] \in Request
        BY <1>5, Serving DEF Replay, Request
    <2>2. QED
        BY <1>5, <2>1 DEF Replay, LeadTypes
<1>6. ASSUME NEW t \in Threads, Capture(t) PROVE LeadTypes'
    <2> DEFINE f == request[t].form
    <2>1. f \in Forms
        BY <1>6, Serving DEF Capture
    <2>2. [request[t] EXCEPT !.pc = "committed"] \in Request
        BY <1>6, Serving DEF Capture, Request
    <2>3. request' \in [Threads -> {Idle} \union Request]
        BY <1>6, <2>2 DEF Capture, LeadTypes
    <2>4. CASE Matched(f) = {}
        <3>1. [email |-> f.email, phone |-> f.phone] \in Contact
            BY <2>1, FormFields DEF Contact
        <3>2. [contact |-> Len(contacts) + 1, form |-> f] \in Receipt
            BY <2>1 DEF Receipt, LeadTypes
        <3>3. /\ contacts' = Append(contacts, [email |-> f.email, phone |-> f.phone])
              /\ receipts' = Append(receipts, [contact |-> Len(contacts) + 1, form |-> f])
            BY <1>6, <2>4 DEF Capture
        <3>4. contacts' \in Seq(Contact) /\ receipts' \in Seq(Receipt)
            BY <3>1, <3>2, <3>3 DEF LeadTypes
        <3>5. \A i \in DOMAIN receipts' : receipts'[i].contact \in DOMAIN contacts'
            BY <3>1, <3>2, <3>3 DEF LeadTypes
        <3>6. QED
            BY <1>6, <2>3, <3>4, <3>5 DEF Capture, LeadTypes
    <2>5. CASE Matched(f) # {}
        <3>1. PICK i \in Matched(f) :
                  /\ contacts' = [contacts EXCEPT ![i] = Merged(@, f)]
                  /\ receipts' = Append(receipts, [contact |-> i, form |-> f])
            BY <1>6, <2>5 DEF Capture
        <3>2. i \in DOMAIN contacts
            BY <3>1 DEF Matched, WithEmail, WithPhone
        <3>3. Merged(contacts[i], f) \in Contact
            BY <2>1, <3>2, MergedContact DEF LeadTypes
        <3>4. contacts' \in Seq(Contact) /\ DOMAIN contacts' = DOMAIN contacts
            BY <3>1, <3>2, <3>3 DEF LeadTypes
        <3>5. [contact |-> i, form |-> f] \in Receipt
            BY <2>1, <3>2 DEF Receipt, LeadTypes
        <3>6. receipts' \in Seq(Receipt)
            BY <3>1, <3>5 DEF LeadTypes
        <3>7. \A j \in DOMAIN receipts' : receipts'[j].contact \in DOMAIN contacts'
            BY <3>1, <3>2, <3>4, <3>5 DEF LeadTypes
        <3>8. QED
            BY <1>6, <2>3, <3>4, <3>6, <3>7 DEF Capture, LeadTypes
    <2>6. QED
        BY <2>4, <2>5
<1>7. ASSUME NEW t \in Threads, Notify(t) PROVE LeadTypes'
    <2>1. [request[t] EXCEPT !.pc = "answered"] \in Request
        BY <1>7, Serving DEF Notify, Request
    <2>2. request[t].form.key \in Keys
        BY <1>7, Serving, FormFields DEF Notify
    <2>3. notified' \in Seq(Keys)
        <3>1. Append(notified, request[t].form.key) \in Seq(Keys)
            BY <2>2 DEF LeadTypes
        <3>2. QED
            BY <1>7, <3>1 DEF Notify, LeadTypes
    <2>4. QED
        BY <1>7, <2>1, <2>3 DEF Notify, LeadTypes
<1>8. ASSUME NEW t \in Threads, Answer(t) PROVE LeadTypes'
    <2>1. request[t].form \in Forms
        BY <1>8, Serving DEF Answer
    <2>2. client' \in [Clients -> ClientState]
        BY <1>8, <2>1, AnswerType DEF Answer
    <2>3. QED
        BY <1>8, <2>2 DEF Answer, LeadTypes
<1>9. CASE Kill
    <2>1. client' \in [Clients -> ClientState]
        BY <1>9, PostingAgain DEF Kill
    <2>2. QED
        BY <1>9, <2>1 DEF Kill, LeadTypes
<1>10. CASE UNCHANGED vars
    BY <1>10 DEF vars, LeadTypes
<1>11. QED
    BY <1>1, <1>2, <1>3, <1>4, <1>5, <1>6, <1>7, <1>8, <1>9, <1>10 DEF Next, Serve

-----------------------------------------------------------------------------
(* A capture adds one receipt, for the form it was given.                  *)
LEMMA CaptureAppends ==
    ASSUME LeadTypes, NEW t \in Threads, Capture(t)
    PROVE  \E r \in Receipt : r.form = request[t].form /\ receipts' = Append(receipts, r)
<1> DEFINE f == request[t].form
<1>1. f \in Forms
    BY Serving DEF Capture
<1>2. CASE Matched(f) = {}
    <2> DEFINE r == [contact |-> Len(contacts) + 1, form |-> f]
    <2>1. r \in Receipt /\ r.form = f
        BY <1>1 DEF Receipt, LeadTypes
    <2>2. receipts' = Append(receipts, r)
        BY <1>2 DEF Capture
    <2>3. QED
        BY <2>1, <2>2
<1>3. CASE Matched(f) # {}
    <2>1. PICK i \in Matched(f) : receipts' = Append(receipts, [contact |-> i, form |-> f])
        BY <1>3 DEF Capture
    <2>2. i \in DOMAIN contacts
        BY <2>1 DEF Matched, WithEmail, WithPhone
    <2> DEFINE r == [contact |-> i, form |-> f]
    <2>3. r \in Receipt /\ r.form = f
        BY <1>1, <2>2 DEF Receipt, LeadTypes
    <2>4. QED
        BY <2>1, <2>3
<1>4. QED
    BY <1>2, <1>3

(* Rows are added to `receipts` and never changed.                         *)
LEMMA ReceiptsGrow ==
    ASSUME LeadTypes, [Next]_vars
    PROVE  \A i \in DOMAIN receipts : i \in DOMAIN receipts' /\ receipts'[i] = receipts[i]
<1>1. CASE \E t \in Threads : Capture(t)
    <2>1. PICK r \in Receipt : receipts' = Append(receipts, r)
        BY <1>1, CaptureAppends
    <2>2. QED
        BY <2>1 DEF LeadTypes
<1>2. CASE ~\E t \in Threads : Capture(t)
    BY <1>2 DEF Next, vars, Serve, Post, GiveUpWaiting, Refuse, Conflict, Replay,
                Notify, Answer, Kill
<1>3. QED
    BY <1>1, <1>2

LEMMA ReceiptKept ==
    ASSUME LeadTypes, [Next]_vars
    PROVE  \A f : HasReceipt(f) => \E j \in DOMAIN receipts' : receipts'[j].form = f
BY ReceiptsGrow DEF HasReceipt

-----------------------------------------------------------------------------
(* Consent: only a capture writes the two tables, and it fills only what   *)
(* is empty in the contact it matched.                                     *)
LEMMA ConsentStep ==
    ASSUME LeadInv, [Next]_vars
    PROVE  ContactsKeepConsent'
<1> USE DEF LeadInv
<1>1. ASSUME NEW t \in Threads, Capture(t) PROVE ContactsKeepConsent'
    <2> DEFINE f == request[t].form
    <2>1. f \in Forms /\ ~ConflictOfContacts(f) /\ Recorded(f.key) = {}
        BY <1>1, Serving DEF Capture
    <2>2. CASE Matched(f) = {}
        <3> DEFINE row == [email |-> f.email, phone |-> f.phone]
                   r == [contact |-> Len(contacts) + 1, form |-> f]
        <3>1. contacts' = Append(contacts, row) /\ receipts' = Append(receipts, r)
            BY <1>1, <2>2 DEF Capture
        <3>2. row \in Contact /\ r \in Receipt
            BY <2>1, FormFields DEF Contact, Receipt, LeadTypes
        <3>3. ASSUME NEW i \in DOMAIN receipts
              PROVE  contacts'[receipts[i].contact] = contacts[receipts[i].contact]
            <4>1. receipts[i].contact \in DOMAIN contacts
                BY DEF LeadTypes
            <4>2. QED
                BY <3>1, <3>2, <4>1 DEF LeadTypes
        <3>4. contacts'[Len(contacts) + 1] = row
            BY <3>1, <3>2 DEF LeadTypes
        <3>5. \A i \in DOMAIN receipts' :
                  \/ i \in DOMAIN receipts /\ receipts'[i] = receipts[i]
                  \/ receipts'[i] = r
            BY <3>1, <3>2 DEF LeadTypes
        <3>6. QED
            BY <3>3, <3>4, <3>5 DEF ContactsKeepConsent
    <2>3. CASE Matched(f) # {}
        <3>1. PICK k \in Matched(f) :
                  /\ contacts' = [contacts EXCEPT ![k] = Merged(@, f)]
                  /\ receipts' = Append(receipts, [contact |-> k, form |-> f])
            BY <1>1, <2>3 DEF Capture
        <3>2. k \in DOMAIN contacts /\ contacts[k] \in Contact
            BY <3>1 DEF Matched, WithEmail, WithPhone, LeadTypes
        <3> DEFINE old == contacts[k]
                   r == [contact |-> k, form |-> f]
        <3>3. r \in Receipt
            BY <2>1, <3>2 DEF Receipt, LeadTypes
        <3>4. ~Differs(old.email, f.email) /\ ~Differs(old.phone, f.phone)
            BY <2>1, <3>1 DEF ConflictOfContacts
        <3>5. /\ f.email # None => Merged(old, f).email = f.email
              /\ f.phone # None => Merged(old, f).phone = f.phone
              /\ old.email # None => Merged(old, f).email = old.email
              /\ old.phone # None => Merged(old, f).phone = old.phone
            BY <3>4 DEF Merged, Differs
        <3>6. contacts'[k] = Merged(old, f) /\ \A j \in DOMAIN contacts \ {k} : contacts'[j] = contacts[j]
            BY <3>1, <3>2 DEF LeadTypes
        <3>7. \A i \in DOMAIN receipts' :
                  \/ i \in DOMAIN receipts /\ receipts'[i] = receipts[i]
                  \/ receipts'[i] = r
            BY <3>1, <3>3 DEF LeadTypes
        <3>8. ASSUME NEW i \in DOMAIN receipts
              PROVE  /\ receipts[i].form.email # None =>
                            contacts'[receipts[i].contact].email = receipts[i].form.email
                     /\ receipts[i].form.phone # None =>
                            contacts'[receipts[i].contact].phone = receipts[i].form.phone
            <4>1. receipts[i].contact \in DOMAIN contacts
                BY DEF LeadTypes
            <4>2. CASE receipts[i].contact = k
                BY <3>5, <3>6, <4>2 DEF ContactsKeepConsent
            <4>3. CASE receipts[i].contact # k
                BY <3>6, <4>1, <4>3 DEF ContactsKeepConsent
            <4>4. QED
                BY <4>2, <4>3
        <3>9. QED
            BY <3>5, <3>6, <3>7, <3>8 DEF ContactsKeepConsent
    <2>4. QED
        BY <2>2, <2>3
<1>2. CASE ~\E t \in Threads : Capture(t)
    <2>1. UNCHANGED <<contacts, receipts>>
        BY <1>2 DEF Next, vars, Serve, Post, GiveUpWaiting, Refuse, Conflict, Replay,
                    Notify, Answer, Kill
    <2>2. QED
        BY <2>1 DEF ContactsKeepConsent
<1>3. QED
    BY <1>1, <1>2

-----------------------------------------------------------------------------
(* Who is past the transaction has its receipt: it made it or found it.    *)
LEMMA ServedStep ==
    ASSUME LeadInv, [Next]_vars
    PROVE  ServedHasReceipt'
<1> USE DEF LeadInv
<1>1. SUFFICES ASSUME NEW u \in Threads, request'[u].pc \in {"committed", "answered"}
               PROVE  \E j \in DOMAIN receipts' : receipts'[j].form = request'[u].form
    BY DEF ServedHasReceipt, HasReceipt
<1> DEFINE Kept == \E j \in DOMAIN receipts' : receipts'[j].form = request'[u].form
<1>2. CASE request'[u] = request[u]
    BY <1>1, <1>2, ReceiptKept DEF ServedHasReceipt
<1>3. CASE /\ request[u].pc \in {"committed", "answered"}
           /\ request'[u].form = request[u].form
    BY <1>3, ReceiptKept DEF ServedHasReceipt
<1>4. ASSUME Replay(u) PROVE Kept
    <2>1. HasReceipt(request[u].form)
        BY <1>4 DEF Replay, HasReceipt, Recorded
    <2>2. request'[u].form = request[u].form
        BY <1>4, Serving DEF Replay, LeadTypes, Request
    <2>3. QED
        BY <2>1, <2>2, ReceiptKept
<1>5. ASSUME Capture(u) PROVE Kept
    <2> DEFINE f == request[u].form
    <2>1. f \in Forms
        BY <1>5, Serving DEF Capture
    <2>2. request'[u].form = f
        BY <1>5, Serving DEF Capture, LeadTypes, Request
    <2>3. PICK r \in Receipt : r.form = f /\ receipts' = Append(receipts, r)
        BY <1>5, CaptureAppends
    <2>4. Len(receipts) + 1 \in DOMAIN receipts' /\ receipts'[Len(receipts) + 1] = r
        BY <2>3 DEF LeadTypes
    <2>5. QED
        BY <2>2, <2>3, <2>4
<1>6. ASSUME Notify(u) PROVE Kept
    <2>1. request'[u].form = request[u].form
        BY <1>6, Serving DEF Notify, LeadTypes, Request
    <2>2. HasReceipt(request[u].form)
        BY <1>6 DEF Notify, ServedHasReceipt
    <2>3. QED
        BY <2>1, <2>2, ReceiptKept
<1>7. ASSUME NEW t \in Threads, Notify(t) \/ Capture(t) \/ Replay(t), t # u
      PROVE  request'[u] = request[u]
    BY <1>7 DEF Notify, Capture, Replay, LeadTypes
<1>8. ASSUME NEW c \in Clients, NEW t \in Threads, Post(c, t) PROVE request'[u] = request[u]
    BY <1>1, <1>8 DEF Post, LeadTypes
<1>9. ASSUME NEW t \in Threads, Refuse(t) \/ Conflict(t) \/ Answer(t)
      PROVE  request'[u] = request[u]
    BY <1>1, <1>9 DEF Refuse, Conflict, Answer, LeadTypes, Idle
<1>10. CASE Kill
    BY <1>1, <1>10 DEF Kill, Idle
<1>11. ASSUME NEW c \in Clients, GiveUpWaiting(c) PROVE request'[u] = request[u]
    BY <1>11 DEF GiveUpWaiting
<1>12. CASE UNCHANGED vars
    BY <1>2, <1>12 DEF vars
<1>13. QED
    BY <1>2, <1>4, <1>5, <1>6, <1>7, <1>8, <1>9, <1>10, <1>11, <1>12 DEF Next, Serve

(* A key gets its first receipt from the one thread that may notify of it, *)
(* and no thread notifies twice.                                           *)
LEMMA NotifierStep ==
    ASSUME LeadInv, [Next]_vars
    PROVE  OneNotifier'
<1> USE DEF LeadInv
<1> DEFINE Committed(t) == request[t].pc = "committed"
           Key(t) == request[t].form.key
<1>1. ASSUME NEW t \in Threads, Capture(t) PROVE OneNotifier'
    <2>1. Recorded(Key(t)) = {}
        BY <1>1 DEF Capture
    <2>2. \A i \in DOMAIN notified : notified[i] # Key(t)
        BY <2>1 DEF AnswersAreReceipts, Recorded
    <2>3. \A u \in Threads : Committed(u) => Key(u) # Key(t)
        BY <2>1 DEF ServedHasReceipt, HasReceipt, Recorded
    <2>4. /\ request'[t].pc = "committed" /\ request'[t].form = request[t].form
          /\ \A u \in Threads \ {t} : request'[u] = request[u]
        BY <1>1, Serving DEF Capture, LeadTypes, Request
    <2>5. notified' = notified
        BY <1>1 DEF Capture
    <2>6. QED
        BY <2>2, <2>3, <2>4, <2>5 DEF OneNotifier
<1>2. ASSUME NEW t \in Threads, Notify(t) PROVE OneNotifier'
    <2>1. /\ request'[t].pc = "answered"
          /\ \A u \in Threads \ {t} : request'[u] = request[u]
        BY <1>2, Serving DEF Notify, LeadTypes, Request
    <2>2. Key(t) \in Keys
        BY <1>2, Serving, FormFields DEF Notify
    <2>3. \A u \in Threads \ {t} : Committed(u) => Key(u) # Key(t)
        BY <1>2 DEF Notify, OneNotifier
    <2>4. \A i \in DOMAIN notified' :
              (i \in DOMAIN notified /\ notified'[i] = notified[i]) \/ notified'[i] = Key(t)
        <3>1. CASE notified' = Append(notified, Key(t))
            BY <2>2, <3>1 DEF LeadTypes
        <3>2. CASE notified' = notified
            BY <3>2
        <3>3. QED
            BY <1>2, <3>1, <3>2 DEF Notify
    <2>5. QED
        BY <2>1, <2>3, <2>4 DEF OneNotifier
<1>3. ASSUME UNCHANGED notified,
             \A u \in Threads : request'[u].pc = "committed" => request'[u] = request[u]
      PROVE  OneNotifier'
    BY <1>3 DEF OneNotifier
<1>4. ASSUME NEW c \in Clients, NEW t \in Threads, Post(c, t) PROVE OneNotifier'
    BY <1>3, <1>4 DEF Post, LeadTypes
<1>5. ASSUME NEW t \in Threads, Refuse(t) \/ Conflict(t) \/ Answer(t) PROVE OneNotifier'
    BY <1>3, <1>5 DEF Refuse, Conflict, Answer, LeadTypes, Idle
<1>6. ASSUME NEW t \in Threads, Replay(t) PROVE OneNotifier'
    <2>1. /\ request'[t].pc = "answered"
          /\ \A u \in Threads \ {t} : request'[u] = request[u]
        BY <1>6, Serving DEF Replay, LeadTypes, Request
    <2>2. QED
        BY <1>3, <1>6, <2>1 DEF Replay
<1>7. CASE Kill
    BY <1>3, <1>7 DEF Kill, Idle
<1>8. ASSUME NEW c \in Clients, GiveUpWaiting(c) PROVE OneNotifier'
    BY <1>3, <1>8 DEF GiveUpWaiting
<1>9. CASE UNCHANGED vars
    BY <1>3, <1>9 DEF vars
<1>10. QED
    BY <1>1, <1>2, <1>4, <1>5, <1>6, <1>7, <1>8, <1>9 DEF Next, Serve

(* Every answer that is new says what the thread holds.                    *)
LEMMA NewAnswers ==
    ASSUME LeadTypes, NEW t \in Threads, NEW c \in Clients,
           NEW answer \in [status : {"ok", "conflict"}, form : Forms]
    PROVE  \A i \in DOMAIN Answering(t, answer)[c].answers :
               \/ i \in DOMAIN client[c].answers
                  /\ Answering(t, answer)[c].answers[i] = client[c].answers[i]
               \/ Answering(t, answer)[c].answers[i] = answer
<1>1. client[c].answers \in Seq([status : {"ok", "conflict"}, form : Forms])
    BY DEF LeadTypes, ClientState
<1>2. CASE c \in Waiting(t)
    <2>1. Answering(t, answer)[c].answers = Append(client[c].answers, answer)
        BY <1>2 DEF Answering
    <2>2. QED
        BY <1>1, <2>1
<1>3. CASE c \notin Waiting(t)
    BY <1>3 DEF Answering
<1>4. QED
    BY <1>2, <1>3

LEMMA AnswersStep ==
    ASSUME LeadInv, [Next]_vars
    PROVE  AnswersAreReceipts'
<1> USE DEF LeadInv
<1>1. ASSUME NEW c \in Clients, NEW i \in DOMAIN client'[c].answers,
             client'[c].answers[i].status = "ok"
      PROVE  HasReceipt(client'[c].answers[i].form)
    <2> DEFINE Old == i \in DOMAIN client[c].answers
                      /\ client'[c].answers[i] = client[c].answers[i]
    <2>1. ASSUME Old PROVE HasReceipt(client'[c].answers[i].form)
        BY <1>1, <2>1 DEF AnswersAreReceipts, HasReceipt
    <2>2. ASSUME NEW t \in Threads, Answer(t)
          PROVE  Old \/ (client'[c].answers[i].form = request[t].form
                         /\ HasReceipt(request[t].form))
        <3> DEFINE answer == [status |-> "ok", form |-> request[t].form]
        <3>1. answer \in [status : {"ok", "conflict"}, form : Forms]
            BY <2>2, Serving DEF Answer
        <3>2. client' = Answering(t, answer)
            BY <2>2 DEF Answer
        <3>3. Old \/ client'[c].answers[i] = answer
            BY <1>1, <3>1, <3>2, NewAnswers
        <3>4. HasReceipt(request[t].form)
            BY <2>2 DEF Answer, ServedHasReceipt
        <3>5. QED
            BY <3>3, <3>4
    <2>3. ASSUME NEW t \in Threads, Conflict(t) PROVE Old
        <3> DEFINE answer == [status |-> "conflict", form |-> request[t].form]
        <3>1. answer \in [status : {"ok", "conflict"}, form : Forms]
            BY <2>3, Serving DEF Conflict
        <3>2. client' = Answering(t, answer)
            BY <2>3 DEF Conflict
        <3>3. Old \/ client'[c].answers[i] = answer
            BY <1>1, <3>1, <3>2, NewAnswers
        <3>4. QED
            BY <1>1, <3>3
    <2>4. ASSUME NEW d \in Clients, NEW t \in Threads, Post(d, t) PROVE Old
        <3>1. client'[c].answers = client[c].answers
            BY <2>4 DEF Post, LeadTypes, ClientState
        <3>2. QED
            BY <1>1, <3>1
    <2>5. ASSUME NEW d \in Clients, GiveUpWaiting(d) PROVE Old
        <3>1. client'[c].answers = client[c].answers
            BY <2>5 DEF GiveUpWaiting, LeadTypes, ClientState
        <3>2. QED
            BY <1>1, <3>1
    <2>6. ASSUME NEW t \in Threads, Refuse(t) PROVE Old
        <3>1. client'[c].answers = client[c].answers
            BY <2>6, PostingAgain DEF Refuse
        <3>2. QED
            BY <1>1, <3>1
    <2>7. CASE Kill
        <3>1. client'[c].answers = client[c].answers
            BY <2>7, PostingAgain DEF Kill
        <3>2. QED
            BY <1>1, <2>1, <3>1
    <2>8. ASSUME NEW t \in Threads, Replay(t) \/ Capture(t) \/ Notify(t) PROVE Old
        BY <1>1, <2>8 DEF Replay, Capture, Notify
    <2>9. CASE UNCHANGED vars
        BY <1>1, <2>1, <2>9 DEF vars
    <2>10. QED
        BY <2>1, <2>2, <2>3, <2>4, <2>5, <2>6, <2>7, <2>8, <2>9 DEF Next, Serve
<1> DEFINE OldNotice(i) == i \in DOMAIN notified /\ notified'[i] = notified[i]
           NewNotice(i) == i = Len(notified) + 1 /\ \E t \in Threads :
                               request[t].pc = "committed" /\ notified'[i] = request[t].form.key
<1>2. \A i \in DOMAIN notified' : OldNotice(i) \/ NewNotice(i)
    <2>1. CASE UNCHANGED notified
        BY <2>1
    <2>2. ASSUME NEW t \in Threads, Notify(t), notified' = Append(notified, request[t].form.key)
          PROVE  \A i \in DOMAIN notified' : OldNotice(i) \/ NewNotice(i)
        <3>1. request[t].form.key \in Keys
            BY <2>2, Serving, FormFields DEF Notify
        <3>2. request[t].pc = "committed"
            BY <2>2 DEF Notify
        <3>3. QED
            BY <2>2, <3>1, <3>2 DEF LeadTypes
    <2>3. \/ UNCHANGED notified
          \/ \E t \in Threads : Notify(t) /\ notified' = Append(notified, request[t].form.key)
        BY DEF Next, vars, Serve, Post, GiveUpWaiting, Refuse, Conflict, Replay, Capture,
               Notify, Answer, Kill
    <2>4. QED
        BY <2>1, <2>2, <2>3
<1>3. ASSUME NEW i \in DOMAIN notified'
      PROVE  \E f : HasReceipt(f) /\ f.key = notified'[i]
    <2>1. CASE OldNotice(i)
        BY <2>1 DEF AnswersAreReceipts, HasReceipt
    <2>2. CASE NewNotice(i)
        <3>1. PICK t \in Threads : request[t].pc = "committed" /\ notified'[i] = request[t].form.key
            BY <2>2
        <3>2. HasReceipt(request[t].form)
            BY <3>1 DEF ServedHasReceipt
        <3>3. QED
            BY <3>1, <3>2
    <2>3. QED
        BY <1>2, <1>3, <2>1, <2>2
<1>4. ASSUME NEW i \in DOMAIN notified', NEW j \in DOMAIN notified', notified'[i] = notified'[j]
      PROVE  i = j
    <2>1. ASSUME NEW k, NEW n, OldNotice(k), NewNotice(n) PROVE notified'[k] # notified'[n]
        <3>1. PICK t \in Threads : request[t].pc = "committed" /\ notified'[n] = request[t].form.key
            BY <2>1
        <3>2. QED
            BY <2>1, <3>1 DEF OneNotifier
    <2>2. CASE OldNotice(i) /\ OldNotice(j)
        BY <1>4, <2>2 DEF AnswersAreReceipts
    <2>3. QED
        BY <1>2, <1>4, <2>1, <2>2
<1>5. \A f : HasReceipt(f) => \E j \in DOMAIN receipts' : receipts'[j].form = f
    BY ReceiptKept
<1>6. \A c \in Clients : \A i \in DOMAIN client'[c].answers :
          client'[c].answers[i].status = "ok" =>
              \E j \in DOMAIN receipts' : receipts'[j].form = client'[c].answers[i].form
    BY <1>1, <1>5
<1>7. \A i \in DOMAIN notified' : \E j \in DOMAIN receipts' : receipts'[j].form.key = notified'[i]
    BY <1>3, <1>5
<1>8. QED
    BY <1>4, <1>6, <1>7 DEF AnswersAreReceipts

-----------------------------------------------------------------------------
LEMMA LeadInit ==
    ASSUME Init
    PROVE  LeadInv
<1>1. LeadTypes
    BY DEF Init, LeadTypes, ClientState
<1>2. QED
    BY <1>1 DEF Init, LeadInv, ContactsKeepConsent, ServedHasReceipt, OneNotifier,
                AnswersAreReceipts, Idle

(* The inductive invariant, for every way forms are posted again, served   *)
(* side by side, refused, lost and cut off.                                *)
THEOREM LeadSafe == Spec => []LeadInv
<1>1. LeadInv /\ [Next]_vars => LeadInv'
    BY TypesStep, ConsentStep, ServedStep, NotifierStep, AnswersStep DEF LeadInv
<1>2. QED
    BY <1>1, LeadInit, PTL DEF Spec

(* A contact keeps what the consent of each of its receipts was given with *)
(* (lead_ledger.py, ingest).                                               *)
THEOREM ConsentHolds == Spec => []ContactsKeepConsent
<1>1. LeadInv => ContactsKeepConsent
    BY DEF LeadInv
<1>2. QED
    BY <1>1, LeadSafe, PTL

(* An ok is a receipt for that very form, and nobody is notified twice     *)
(* (lead_api.py, do_POST, ingest before send).                             *)
THEOREM AnswersHold == Spec => []AnswersAreReceipts
<1>1. LeadInv => AnswersAreReceipts
    BY DEF LeadInv
<1>2. QED
    BY <1>1, LeadSafe, PTL
=============================================================================
