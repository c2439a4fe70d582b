----------------------------- MODULE Deliveries -----------------------------
(***************************************************************************)
(* What goes out through a connected provider and what comes back: sends   *)
(* with three attempts (integration.service), reports on the delivery of a *)
(* message (communication-delivery.service), signatures of an envelope     *)
(* (e-signature.service).  The provider is outside: each attempt is a new  *)
(* request to it, which it may accept, under an id of its own, and its     *)
(* answer be lost; it may call back on whatever it accepted at any time.   *)
(* Callbacks are checked with a webhook secret.  Connecting notes the keys *)
(* it stores, disconnecting deletes those; the secret store takes any key  *)
(* at any time besides.                                                    *)
(*                                                                         *)
(* One connection is modelled and one call that gets through it.           *)
(***************************************************************************)
EXTENDS Desk, Naturals, Sequences

CONSTANTS
  MaxAttempts,  \* MAX_ATTEMPTS of a send
  MaxReports    \* bounds the rows of a message

ASSUME DeliveriesAssumption ==
  MaxAttempts \in Nat \ {0} /\ MaxReports \in Nat /\ None \notin {"sent", "signed", "declined"}

Fields == {"credential", "webhook_secret"}
Ids == 1..MaxAttempts   \* the provider's ids, in the order it gives them out

VARIABLES
  channel,      \* "message" (whatsapp, email) or "envelope" (e_signature)
  connection,   \* its status
  credentialKeys, \* what connect stored
  secrets,      \* what is stored for it
  accepted,     \* how many requests the provider has accepted
  timeline,     \* [Ids -> rows], [from, linked]: of a send or a report, to the lead or not
  envelope,     \* the status of the envelope, None before it is saved
  deliveryCall, \* [Callers -> a call in progress]
  early,        \* auxiliary: ids reported on before a row of theirs was saved
  verdicts,     \* auxiliary: the decisions saved on the envelope
  atOnce,       \* auxiliary: two callbacks on the envelope were handled at once
  restored,     \* auxiliary: fields stored by hand where nothing was stored
  cutOff        \* auxiliary: no send was under way when it was last disconnected

deliveryVars ==
  <<channel, connection, credentialKeys, secrets, accepted, timeline, envelope,
    deliveryCall, early, verdicts, atOnce, restored, cutOff>>

(* connect: a webhook secret is required for signatures and optional else. *)
DeliveriesInit ==
  /\ channel \in {"message", "envelope"}
  /\ connection = "connected"
  /\ credentialKeys \in {Fields} \cup (IF channel = "message" THEN {{"credential"}} ELSE {})
  /\ secrets = credentialKeys
  /\ accepted = 0
  /\ timeline = [id \in Ids |-> <<>>]
  /\ envelope = None
  /\ deliveryCall = [w \in Callers |-> Rest]
  /\ early = {}
  /\ verdicts = <<>>
  /\ atOnce = FALSE
  /\ restored = {}
  /\ cutOff = FALSE

Continues(w, new) == deliveryCall' = Becomes(deliveryCall, w, new)
Doing(w, pc) == deliveryCall[w].pc = pc
Keeps == UNCHANGED <<channel, credentialKeys>>
-----------------------------------------------------------------------------
(* send: the connection and its credential are read once, then up to three  *)
(* attempts.  Without a credential every attempt fails; with an answer lost *)
(* it is made again.                                                        *)
Send(w) ==
  /\ Doing(w, "idle")
  /\ connection # "disconnected"
  /\ accepted = 0   \* bounds the calls that get through to one
  /\ \A v \in Callers : ~ Doing(v, "attempt")
  /\ Continues(w, [pc |-> "attempt", n |-> 1, able |-> "credential" \in secrets])
  /\ Keeps /\ UNCHANGED <<connection, secrets, accepted, timeline, envelope, early, verdicts,
                          atOnce, restored, cutOff>>

Attempt(w) ==
  LET c == deliveryCall[w] IN
  /\ c.pc = "attempt"
  /\ \/ /\ c.able /\ accepted' = accepted + 1
        /\ Continues(w, [pc |-> "succeeded", id |-> accepted + 1])
     \/ /\ accepted' \in {accepted} \cup (IF c.able THEN {accepted + 1} ELSE {})
        /\ Continues(w, IF c.n < MaxAttempts THEN [c EXCEPT !.n = @ + 1] ELSE [pc |-> "failed"])
  /\ Keeps /\ UNCHANGED <<connection, secrets, timeline, envelope, early, verdicts, atOnce,
                          restored, cutOff>>

(* The connection is saved as it was read, with its new status. *)
SaveConnection(w) ==
  LET c == deliveryCall[w] IN
  /\ \/ c.pc = "succeeded" /\ connection' = "connected" /\ Continues(w, [pc |-> "row", id |-> c.id])
     \/ c.pc = "failed" /\ connection' = "error" /\ Continues(w, Rest)
  /\ Keeps /\ UNCHANGED <<secrets, accepted, timeline, envelope, early, verdicts, atOnce,
                          restored, cutOff>>

(* The row "sent" of the message, under the id that was answered, if the    *)
(* answer gives one; or the envelope (sendForSignature).                    *)
SaveSent(w) ==
  LET c == deliveryCall[w] IN
  /\ c.pc = "row"
  /\ IF channel = "message"
       THEN /\ timeline' \in {timeline, [timeline EXCEPT ![c.id] =
                                          Append(@, [from |-> "send", linked |-> TRUE])]}
            /\ UNCHANGED envelope
       ELSE envelope' = "sent" /\ UNCHANGED timeline
  /\ Continues(w, Rest)
  /\ Keeps /\ UNCHANGED <<connection, secrets, accepted, early, verdicts, atOnce, restored, cutOff>>
-----------------------------------------------------------------------------
(* handleWebhook of a message: a report is linked to the lead its first row *)
(* is linked to.  Nobody looks at the status of the connection.             *)
(* Mutant: a report is taken to belong to the lead. *)
AnyMessage(rows) == TRUE
Originating(rows) == rows # <<>> /\ Head(rows).linked

ReadPrior(w, id) ==
  /\ Doing(w, "idle")
  /\ channel = "message"
  /\ id <= accepted
  /\ "webhook_secret" \in secrets
  /\ Len(timeline[id]) < MaxReports
  /\ early' = IF timeline[id] = <<>> THEN early \cup {id} ELSE early
  /\ Continues(w, [pc |-> "report", id |-> id, linked |-> Originating(timeline[id])])
  /\ Keeps /\ UNCHANGED <<connection, secrets, accepted, timeline, envelope, verdicts, atOnce,
                          restored, cutOff>>

SaveReport(w) ==
  LET c == deliveryCall[w] IN
  /\ c.pc = "report"
  /\ timeline' = [timeline EXCEPT ![c.id] = Append(@, [from |-> "report", linked |-> c.linked])]
  /\ Continues(w, Rest)
  /\ Keeps /\ UNCHANGED <<connection, secrets, accepted, envelope, early, verdicts, atOnce,
                          restored, cutOff>>

(* handleWebhook of the envelope: the second callback is a no-op. *)
Undecided(status) == status = "sent"

ReadEnvelope(w, status) ==
  /\ Doing(w, "idle")
  /\ "webhook_secret" \in secrets
  /\ Undecided(envelope)
  /\ atOnce' = (atOnce \/ \E v \in Callers : Doing(v, "decide"))
  /\ Continues(w, [pc |-> "decide", status |-> status])
  /\ Keeps /\ UNCHANGED <<connection, secrets, accepted, timeline, envelope, early, verdicts,
                          restored, cutOff>>

SaveVerdict(w) ==
  /\ Doing(w, "decide")
  /\ Len(verdicts) < 2   \* bounds what is recorded of them
  /\ envelope' = deliveryCall[w].status
  /\ verdicts' = Append(verdicts, envelope')
  /\ Continues(w, Rest)
  /\ Keeps /\ UNCHANGED <<connection, secrets, accepted, timeline, early, atOnce, restored, cutOff>>
-----------------------------------------------------------------------------
(* setSecret: any key, whatever has become of the connection.  It looks for *)
(* a secret under the key first and keeps the id of the one it finds.       *)
SetSecret(w, field) ==
  /\ Doing(w, "idle")
  /\ secrets' = secrets \cup {field}
  /\ restored' = IF field \in secrets THEN restored ELSE restored \cup {field}
  /\ Keeps /\ UNCHANGED <<connection, accepted, timeline, envelope, deliveryCall, early, verdicts,
                          atOnce, cutOff>>

(* disconnect: of the keys connect noted, those stored are listed, deleted  *)
(* by their ids one at a time, and then the connection is saved.            *)
ListSecrets(w) ==
  /\ Doing(w, "idle")
  /\ Continues(w, [pc |-> "disconnect", left |-> credentialKeys \cap secrets])
  /\ Keeps /\ UNCHANGED <<connection, secrets, accepted, timeline, envelope, early, verdicts,
                          atOnce, restored, cutOff>>

(* Of one that is gone, or stored again under another id, nothing is        *)
(* deleted: not found, the call ends there; found just before, it goes on.  *)
DeleteSecret(w, field) ==
  LET c == deliveryCall[w]
      next == [c EXCEPT !.left = @ \ {field}]
  IN
  /\ c.pc = "disconnect"
  /\ field \in c.left
  /\ \/ secrets' = secrets \ {field} /\ Continues(w, next)
     \/ /\ field \notin secrets \ restored
        /\ UNCHANGED secrets
        /\ (Continues(w, Rest) \/ Continues(w, next))
  /\ Keeps /\ UNCHANGED <<connection, accepted, timeline, envelope, early, verdicts, atOnce,
                          restored, cutOff>>

SaveDisconnected(w) ==
  /\ Doing(w, "disconnect")
  /\ deliveryCall[w].left = {}
  /\ connection' = "disconnected"
  /\ cutOff' = \A v \in Callers : ~ (Doing(v, "attempt") \/ Doing(v, "succeeded") \/ Doing(v, "failed"))
  /\ Continues(w, Rest)
  /\ Keeps /\ UNCHANGED <<secrets, accepted, timeline, envelope, early, verdicts, atOnce, restored>>

StopDeliveries ==
  /\ ~ Quiet(deliveryCall)
  /\ deliveryCall' = [w \in Callers |-> Rest]
  /\ Keeps /\ UNCHANGED <<connection, secrets, accepted, timeline, envelope, early, verdicts,
                          atOnce, restored, cutOff>>

DeliveriesNext ==
  \/ \E w \in Callers :
       \/ Send(w) \/ Attempt(w) \/ SaveConnection(w) \/ SaveSent(w)
       \/ \E id \in Ids : ReadPrior(w, id)
       \/ SaveReport(w)
       \/ \E status \in {"signed", "declined"} : ReadEnvelope(w, status)
       \/ SaveVerdict(w)
       \/ \E field \in Fields : SetSecret(w, field) \/ DeleteSecret(w, field)
       \/ ListSecrets(w) \/ SaveDisconnected(w)
  \/ StopDeliveries

DeliveriesSpec == DeliveriesInit /\ [][DeliveriesNext]_deliveryVars
-----------------------------------------------------------------------------
(* Whatever is lost, repeated, or sent after a disconnection.  What is left *)
(* of a disconnected connection was stored by hand where nothing was, and   *)
(* a connection stays disconnected unless a send was under way.  A report   *)
(* is linked to the lead if a row of the message it reports on was there,   *)
(* and only if the message has its row "sent": never if that attempt's      *)
(* answer was lost.  An envelope is decided once unless two callbacks on it *)
(* were handled at once (integration.service.ts:173-181, 257-280,           *)
(* communication-delivery.service.ts:82-88, e-signature.service.ts:87-93).  *)
CallbacksAgree ==
  /\ connection = "disconnected" => secrets \subseteq restored
  /\ cutOff => connection = "disconnected"
  /\ \A id \in Ids : \A i \in DOMAIN timeline[id] :
       /\ id \notin early => timeline[id][i].linked
       /\ timeline[id][i].linked => \E j \in 1..i : timeline[id][j].from = "send"
  /\ ~atOnce => Len(verdicts) <= 1
=============================================================================
