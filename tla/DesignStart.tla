------------------------------ MODULE DesignStart ------------------------------
(***************************************************************************)
(* How a design job is started from the page: the draft and its submission *)
(* (client/designer/submission-state.ts, TeamDesignerCard.tsx), the call   *)
(* (use-design-jobs.ts, design-gateway.ts), the prefills of /team-design   *)
(* and of a retry after a Role gap (events.ts, design-screen-state.ts,     *)
(* AgentTeamsScreen.tsx), and the admission of the service                 *)
(* (server/designer/service.ts start).  Answers may be lost or late, and   *)
(* the page may move to another host and back meanwhile.                   *)
(*                                                                         *)
(* A text stands for the whole draft: request, target, Profile and rule.   *)
(***************************************************************************)
EXTENDS Integers, Sequences, FiniteSets

CONSTANTS
  PageHosts, Texts,
  RuleOff,                         \* the drafts with "existing Roles only" off
  Limit,                           \* active jobs of a host, 3
  MaxPresses, MaxMoves, MaxLosses, \* bounds: starts, other acts of the user, trouble
  None

VARIABLES
  page,     \* host, mount of its card, token of the screen's params, prefill slot
  card,     \* draft, submission and prefill of the mounted card
  starts,   \* calls of design.start: at the service, or their answers
  busy,     \* per host: the call whose job is being created
  designs,  \* the jobs of all hosts
  prefills, \* queued prefills, seeds of a retry being read, tokens tried
  spent,    \* of each bound
  gone,     \* history: drafts that left the card without the user's doing
  applied   \* history: prefills that reached a card
startVars == <<page, card, starts, busy, designs, prefills, spent, gone, applied>>

BlankCard == [text |-> None, version |-> 0, pending |-> None, retry |-> None, seq |-> 0,
              seen |-> None, asking |-> None, last |-> None]
Init ==
  /\ \E h \in PageHosts : page = [host |-> h, mount |-> 1, token |-> None, slot |-> None,
                                  contract |-> "v2"]
  /\ card = BlankCard
  /\ starts = {} /\ busy = [h \in PageHosts |-> None] /\ designs = {}
  /\ prefills = [queue |-> {}, reading |-> {}, tried |-> {}]
  /\ spent = [presses |-> 0, moves |-> 0, losses |-> 0]
  /\ gone = {} /\ applied = <<>>

Outcomes == {"accepted", "rejected", "unknown"}
\* A call; a card's submission, the request it would ask again, the last outcome.
CallSteps == {"sent", "creating", "accepted", "rejected"}
Payloads == Texts \X BOOLEAN
StartCalls == [mount : Nat, seq : Nat, host : PageHosts, id : Nat, payload : Payloads, ask : Nat,
               at : CallSteps, heard : BOOLEAN]
Pendings == [id : Nat, seq : Nat, version : Nat, text : Texts, ask : Nat]
Retries == [id : Nat, text : Texts]
Lasts == [text : Texts, outcome : Outcomes, ask : Nat]
\* The module's one type invariant.
StartTypeOK ==
  /\ page.host \in PageHosts /\ page.contract \in {"v2", "baseline"}
  /\ card.text \in Texts \cup {None} /\ card.version \in Nat
  /\ card.pending \in Pendings \cup {None} /\ card.retry \in Retries \cup {None}
  /\ card.pending = None \/ card.pending.version <= card.version
  /\ card.last \in Lasts \cup {None}
  /\ starts \subseteq StartCalls
  /\ \A h \in PageHosts : busy[h] = None \/ busy[h] \in starts

Moved == spent.moves < MaxMoves /\ spent' = [spent EXCEPT !.moves = @ + 1]
Lost == spent.losses < MaxLosses /\ spent' = [spent EXCEPT !.losses = @ + 1]

-----------------------------------------------------------------------------
(* The card. *)
\* The draft is replaced; a text that was there is gone unless the user agreed.
Replace(text, agreed) ==
  gone' = IF agreed \/ card.text \in {None, text} THEN gone
          ELSE gone \cup {[host |-> page.host, text |-> card.text]}

\* editDesignDraft.
Edit(text) ==
  /\ Moved /\ text # card.text
  /\ card' = [card EXCEPT !.text = text, !.version = @ + 1]
  /\ UNCHANGED <<page, starts, busy, designs, prefills, gone, applied>>

\* A bug: an unknown outcome does not keep the id.
RequestIdFresh(text) == spent.presses + 1
RequestId(text) ==
  IF card.retry # None /\ card.retry.text = text THEN card.retry.id ELSE spent.presses + 1

\* The contract of the host decides whether the rule is sent; left out, it is on.
Payload(text) == <<text, page.contract = "v2" /\ text \in RuleOff>>

\* The user asks once more for what has no known outcome yet.
AsksAgain(text) == card.last # None /\ card.last.text = text /\ card.last.outcome = "unknown"

\* planDesignSubmission and useDesignJobs.start.
Press ==
  /\ card.pending = None /\ card.text # None /\ spent.presses < MaxPresses
  /\ spent' = [spent EXCEPT !.presses = @ + 1]
  /\ LET id == RequestId(card.text)
         ask == IF AsksAgain(card.text) THEN card.last.ask ELSE spent.presses + 1
     IN /\ card' = [card EXCEPT !.pending = [id |-> id, seq |-> card.seq + 1, version |-> card.version,
                                             text |-> card.text, ask |-> ask],
                                !.seq = @ + 1, !.retry = None]
        /\ starts' = starts \cup {[mount |-> page.mount, seq |-> card.seq + 1, host |-> page.host,
                                   id |-> id, payload |-> Payload(card.text), ask |-> ask,
                                   at |-> "sent", heard |-> TRUE]}
  /\ UNCHANGED <<page, busy, designs, prefills, gone, applied>>

ForMe(c) == c.heard /\ c.mount = page.mount /\ card.pending # None
            /\ card.pending.id = c.id /\ card.pending.seq = c.seq
\* settleDesignSubmission: an accepted start clears the draft it was made from.
Clears(outcome) == outcome = "accepted" /\ card.version = card.pending.version
Settled(outcome) ==
  LET p == card.pending
      settled == [card EXCEPT !.pending = None,
                    !.last = [text |-> p.text, outcome |-> outcome, ask |-> p.ask],
                    !.retry = IF outcome = "unknown" THEN [id |-> p.id, text |-> p.text] ELSE None]
  IN IF Clears(outcome) THEN [settled EXCEPT !.text = None, !.version = @ + 1] ELSE settled

Answer(c) ==
  /\ c.at \in {"accepted", "rejected"}
  /\ starts' = starts \ {c}
  /\ IF ForMe(c) THEN card' = Settled(c.at) /\ Replace(card'.text, FALSE)
     ELSE UNCHANGED <<card, gone>>
  /\ UNCHANGED <<page, busy, designs, prefills, spent, applied>>

\* The transport gives up; the call may still be at the service.
AnswerLost(c) ==
  /\ c.heard /\ Lost
  /\ LET deaf == [c EXCEPT !.heard = FALSE]
     IN /\ starts' = (starts \ {c}) \cup (IF c.at \in {"sent", "creating"} THEN {deaf} ELSE {})
        /\ busy' = [h \in PageHosts |-> IF busy[h] = c THEN deaf ELSE busy[h]]
  /\ card' = IF ForMe(c) THEN Settled("unknown") ELSE card
  /\ UNCHANGED <<page, designs, prefills, gone, applied>>

-----------------------------------------------------------------------------
(* The service: one start of a host at a time. *)
Admitted(host) == busy[host] = None
ActiveOn(host) == {j \in designs : j.host = host /\ j.active}
Replied(c, reply) == starts' = (starts \ {c}) \cup {[c EXCEPT !.at = reply]}

\* findRequest, then the list of the records.
Admit(c) ==
  /\ c.at = "sent" /\ Admitted(c.host)
  /\ LET known == {j \in designs : j.host = c.host /\ j.id = c.id}
         creating == [c EXCEPT !.at = "creating"]
     IN IF known = {} /\ Cardinality(ActiveOn(c.host)) < Limit
        THEN /\ starts' = (starts \ {c}) \cup {creating}
             /\ busy' = [busy EXCEPT ![c.host] = creating]
        ELSE /\ Replied(c, IF \E j \in known : j.payload = c.payload THEN "accepted" ELSE "rejected")
             /\ UNCHANGED busy
  /\ UNCHANGED <<page, card, designs, prefills, spent, gone, applied>>

\* store.create, which may fail.
Create(c, fails) ==
  /\ c.at = "creating"
  /\ IF fails THEN Lost ELSE UNCHANGED spent
  /\ busy' = [busy EXCEPT ![c.host] = IF @ = c THEN None ELSE @]
  /\ Replied(c, IF fails THEN "rejected" ELSE "accepted")
  /\ designs' = IF fails THEN designs
                ELSE designs \cup {[host |-> c.host, id |-> c.id, payload |-> c.payload,
                                    ask |-> c.ask, active |-> TRUE]}
  /\ UNCHANGED <<page, card, prefills, gone, applied>>

\* A job is saved, fails or is canceled.
JobEnds(j) ==
  /\ j.active
  /\ designs' = (designs \ {j}) \cup {[j EXCEPT !.active = FALSE]}
  /\ UNCHANGED <<page, card, starts, busy, prefills, spent, gone, applied>>

-----------------------------------------------------------------------------
(* Prefills. *)
\* /team-design queues the text for its scope and opens the screen.
Slash(text) ==
  /\ Moved
  /\ LET token == spent.moves + 1
     IN /\ prefills' = [prefills EXCEPT !.queue = @ \cup {[nonce |-> token, host |-> page.host, text |-> text]}]
        /\ page' = [page EXCEPT !.token = token]
  /\ UNCHANGED <<card, starts, busy, designs, gone, applied>>

\* The screen takes up the token of its params, once for each host it shows;
\* a matching event is taken from the queue.
Deliver ==
  /\ page.token # None /\ page.token \notin prefills.tried
  /\ LET mine == {e \in prefills.queue : e.nonce = page.token /\ e.host = page.host}
     IN /\ prefills' = [prefills EXCEPT !.tried = @ \cup {page.token}, !.queue = @ \ mine]
        /\ page' = IF mine = {} THEN page
                   ELSE [page EXCEPT !.slot = [host |-> page.host, gap |-> FALSE,
                                               event |-> CHOOSE e \in mine : TRUE]]
  /\ UNCHANGED <<card, starts, busy, designs, spent, gone, applied>>
Expire ==
  /\ prefills.queue # {}
  /\ prefills' = [prefills EXCEPT !.queue = {}]
  /\ UNCHANGED <<page, card, starts, busy, designs, spent, gone, applied>>

\* "Close the switch and retry": the seed of the job is read first.
GapRetry(j) ==
  /\ j.host = page.host /\ Moved
  /\ prefills' = [prefills EXCEPT !.reading = @ \cup {[nonce |-> spent.moves + 1, host |-> j.host,
                                                      text |-> j.payload[1]]}]
  /\ UNCHANGED <<page, card, starts, busy, designs, gone, applied>>
GapSeedRead(e) ==
  /\ prefills' = [prefills EXCEPT !.reading = @ \ {e}]
  /\ page' = [page EXCEPT !.slot = [host |-> e.host, gap |-> TRUE, event |-> e]]
  /\ UNCHANGED <<card, starts, busy, designs, spent, gone, applied>>

\* A prefill becomes the draft; the user asked for it here, or agreed to it.
Apply(event, changed) ==
  /\ card' = [changed EXCEPT !.text = event.text, !.version = @ + 1]
  /\ applied' = Append(applied, [nonce |-> event.nonce, made |-> event.host, on |-> page.host])

ForThisHost(slot) == slot # None /\ slot.host = page.host
ShouldConfirm(event) == card.text \notin {None, event.text}
\* The card's effect: once for each nonce, a retry asks before it replaces a text.
TakePrefill ==
  /\ ForThisHost(page.slot) = TRUE /\ card.seen # page.slot.event.nonce
  /\ LET event == page.slot.event
         noted == [card EXCEPT !.seen = event.nonce]
     IN IF page.slot.gap /\ ShouldConfirm(event)
        THEN card' = [noted EXCEPT !.asking = event] /\ UNCHANGED <<gone, applied>>
        ELSE Apply(event, noted) /\ Replace(event.text, ~page.slot.gap)
  /\ UNCHANGED <<page, starts, busy, designs, prefills, spent>>
Agree ==
  /\ card.asking # None
  /\ Apply(card.asking, [card EXCEPT !.asking = None]) /\ Replace(card.asking.text, TRUE)
  /\ UNCHANGED <<page, starts, busy, designs, prefills, spent>>
Decline ==
  /\ card.asking # None
  /\ card' = [card EXCEPT !.asking = None]
  /\ UNCHANGED <<page, starts, busy, designs, prefills, spent, gone, applied>>

-----------------------------------------------------------------------------
\* The page shows another host: a card of its own, and no prefill.
SwitchHost(h) ==
  /\ h # page.host /\ Moved
  /\ page' = [page EXCEPT !.host = h, !.mount = @ + 1, !.slot = None]
  /\ card' = BlankCard
  /\ prefills' = [prefills EXCEPT !.tried = {}]
  /\ UNCHANGED <<starts, busy, designs, gone, applied>>

\* Another probe of the host says that it speaks another contract.
ContractChanges ==
  /\ Moved
  /\ page' = [page EXCEPT !.contract = IF @ = "v2" THEN "baseline" ELSE "v2"]
  /\ UNCHANGED <<card, starts, busy, designs, prefills, gone, applied>>

Next ==
  \/ \E text \in Texts \cup {None} : Edit(text)
  \/ \E text \in Texts : Slash(text)
  \/ Press
  \/ Deliver
  \/ Expire
  \/ TakePrefill
  \/ Agree
  \/ Decline
  \/ \E h \in PageHosts : SwitchHost(h)
  \/ ContractChanges
  \/ \E c \in starts :
       \/ Admit(c)
       \/ \E fails \in BOOLEAN : Create(c, fails)
       \/ Answer(c)
       \/ AnswerLost(c)
  \/ \E j \in designs : JobEnds(j) \/ GapRetry(j)
  \/ \E e \in prefills.reading : GapSeedRead(e)
Spec == Init /\ [][Next]_startVars

-----------------------------------------------------------------------------
(* Properties. *)
\* However often the user presses start for a request whose outcome is not
\* known, and in whatever order the calls reach the service, one job is made.
\* A card that was left for another host forgets the request.
OneJobPerAsk ==
  \A j, k \in designs : j.host = k.host /\ j.ask = k.ask => j.id = k.id

\* A text that left the card without the user's doing is a job of its host: a
\* late answer never clears, and a retry never replaces, what was typed since.
DraftsAreJobs == \A g \in gone : \E j \in designs : j.host = g.host /\ j.payload[1] = g.text

\* A prefill reaches one card once, on the host it was made for.
PrefillsAtHome ==
  \A i, k \in DOMAIN applied :
    applied[i].made = applied[i].on /\ (applied[i].nonce = applied[k].nonce => i = k)

\* A host never has more active jobs than the limit.
AdmissionHolds == \A h \in PageHosts : Cardinality(ActiveOn(h)) <= Limit
=============================================================================
