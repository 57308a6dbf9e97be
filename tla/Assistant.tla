----------------------------- MODULE Assistant -----------------------------
(***************************************************************************)
(* The assistant of one workspace: a process-local controller that admits   *)
(* a bounded number of questions per window and lets identical questions    *)
(* share one flight, and the operation a flight runs.  A question names the *)
(* headquarters snapshot its member is looking at; the answer is built from *)
(* that snapshot alone, either by rule or by a provider whose every section *)
(* must lean on facts retrieved from the snapshot.  What a snapshot holds   *)
(* is a constant, the one that is current moves; the wording of questions   *)
(* and facts is reduced to their intent and their identity.                 *)
(***************************************************************************)
EXTENDS Integers, Sequences, Functions, FiniteSets

CONSTANTS Tabs,            \* open pages of one member of the workspace
          Questions,       \* normalized questions
          IntentOf,        \* what _classify_intent reads in a question
          Unsafe,          \* questions with an unsafe or an action marker
          Snapshots,       \* ids of headquarters snapshots
          Content,         \* what each of them shows
          Refs,            \* references to evidence that snapshots may hold
          Trusted,         \* those of an allowed provenance, trust and type
          Aggregates,      \* sections of a snapshot that have a number
          FactLimit, CitationLimit,
          Limit, QueryWindow,      \* admitted questions per window
          MaxFlights, MaxClock,
          NoFlight

ASSUME AssistantAssumption ==
    /\ FactLimit \in Nat \ {0} /\ CitationLimit \in Nat \ {0}
    /\ Limit \in Nat \ {0} /\ QueryWindow \in Nat \ {0}
    /\ Unsafe \subseteq Questions
    /\ Trusted \subseteq Refs
    /\ Content \in [Snapshots ->
          [priority : Seq(Refs), owner : Seq(Refs), queue : Seq(Seq(Refs)),
           reviews : Seq(Seq(Refs)), counts : Seq(Aggregates)]]

VARIABLES screen,          \* the snapshot the headquarters shows now
          clock,           \* monotonic time of the process
          attempts,        \* admitted at, oldest first
          inFlight,        \* key -> its flight
          flight,          \* the flights begun so far
          tab,             \* what each page waits for or shows
          llm              \* settings.enable_llm

assistantVars == <<screen, clock, attempts, inFlight, flight, tab, llm>>

Keys == Snapshots \X Questions

Idle == [pc |-> "idle", key |-> NoFlight, on |-> NoFlight]

AssistantInit ==
    /\ screen \in Snapshots
    /\ clock = 0
    /\ attempts = <<>>
    /\ inFlight = [k \in Keys |-> NoFlight]
    /\ flight = <<>>
    /\ tab = [t \in Tabs |-> Idle]
    /\ llm \in BOOLEAN

-----------------------------------------------------------------------------
(* Evidence of a snapshot *)

Smaller(m, n) == IF m < n THEN m ELSE n

\* The list with the allowed references it lacks, in their order, while there is
\* room.
Extended(list, refs, allowed) ==
    LET upTo[n \in 0..Len(refs)] ==
            IF n = 0 THEN list
            ELSE IF \/ refs[n] \in Range(upTo[n - 1]) \/ refs[n] \notin allowed
                    \/ Len(upTo[n - 1]) >= CitationLimit
                 THEN upTo[n - 1]
                 ELSE Append(upTo[n - 1], refs[n])
    IN  upTo[Len(refs)]

\* The references that may be cited, each once, at most the limit of them.
CitableEvidence(refs) == Extended(<<>>, refs, Trusted)

SnapshotCitation(s, section) == <<s, section>>

\* The evidence of each fact a snapshot offers the provider, in order: the
\* priority twice, the head of the queue, the aggregates that are known.
Offered(s) ==
    LET shown == Content[s]
        refs == CitableEvidence(shown.priority)
    IN  <<refs, refs>>
        \o [i \in 1 .. Smaller(Len(shown.queue), 3) |-> CitableEvidence(shown.queue[i])]
        \o [i \in DOMAIN shown.counts |-> <<SnapshotCitation(s, shown.counts[i])>>]

\* Mutant: a fact keeps the citations that the list has no room for.
AddFactUncapped(found, fact) ==
    [facts |-> Append(found.facts, [id |-> fact.id, cites |-> Range(fact.cites)]),
     citations |-> SubSeq(found.citations \o fact.cites, 1,
                          Smaller(Len(found.citations \o fact.cites), CitationLimit))]

\* A fact keeps the citations that are already listed or still fit; a fact
\* left with none is not offered.
AddFact(found, fact) ==
    LET listed == Extended(found.citations, fact.cites, Range(fact.cites))
        kept == Range(fact.cites) \cap Range(listed)
    IN  IF Len(found.facts) >= FactLimit \/ kept = {} THEN found
        ELSE [facts |-> Append(found.facts, [id |-> fact.id, cites |-> kept]),
              citations |-> listed]

AssistantRetrieval ==
    [s \in Snapshots |->
        LET offered == Offered(s)
            upTo[n \in 0..Len(offered)] ==
                IF n = 0 THEN [facts |-> <<>>, citations |-> <<>>]
                ELSE AddFact(upTo[n - 1], [id |-> n, cites |-> offered[n]])
        IN  upTo[Len(offered)]]

-----------------------------------------------------------------------------
(* Answers *)

Unsaid == [says |-> FALSE, cites |-> {}]

DeterministicPerspectives(cites) ==
    [fact |-> [says |-> cites # {}, cites |-> cites], opinion |-> Unsaid]

\* The evidence a rule answers with: none when it has nothing to say.  A
\* question about an aggregate has the aggregate's section as its intent.
Answer(intent, s) ==
    LET shown == Content[s]
    IN  CASE intent \in {"current_priority", "why_now", "evidence"} -> CitableEvidence(shown.priority)
          [] intent \in {"owners", "company_person"} -> CitableEvidence(shown.owner)
          [] intent = "decision_status" ->
                IF shown.reviews = <<>> THEN <<SnapshotCitation(s, "decisions")>>
                ELSE CitableEvidence(Head(shown.reviews))
          [] intent = "action_request" -> <<SnapshotCitation(s, "decisions")>>
          [] intent \in Range(shown.counts) -> <<SnapshotCitation(s, intent)>>
          [] OTHER -> <<>>

BuildAssistantResponse(s, q) ==
    LET cites == Answer(IntentOf[q], s)
    IN  [kind |-> "answer", snapshot |-> s, intent |-> IntentOf[q],
         perspectives |-> DeterministicPerspectives(Range(cites)),
         citations |-> Range(SubSeq(cites, 1, Smaller(Len(cites), CitationLimit))),
         warnings |-> IF IntentOf[q] = "unsupported" THEN {"unsupported_intent"} ELSE {},
         llmUsed |-> FALSE]

WithWarning(answer, warning) == [answer EXCEPT !.warnings = @ \cup {warning}]

Failed(why) == [kind |-> why]

\* An id the provider was not offered.
Invented == 0

\* A section of the provider's reply: the facts it leans on, and whether it
\* is worded as one of them.  Opinion stands for the interpretation, the
\* objection and the recommendation, which are validated alike.
Sections(facts) ==
    [on : SUBSET ({f.id : f \in Range(facts)} \cup {Invented}), copied : BOOLEAN]

Replies(facts) == [fact : Sections(facts), opinion : {o \in Sections(facts) : ~o.copied}]

CitesOf(section, facts) ==
    UNION {f.cites : f \in {g \in Range(facts) : g.id \in section.on}}

\* Every fact a section leans on was offered, the factual section repeats one.
ValidateReasoning(reply, facts) ==
    /\ \A section \in {reply.fact, reply.opinion} : section.on \subseteq {f.id : f \in Range(facts)}
    /\ reply.fact.on # {}
    /\ reply.fact.copied

BuildGenerativeResponse(answer, reply, found) ==
    LET Said(section) == [says |-> section.on # {}, cites |-> CitesOf(section, found.facts)]
        sections == [fact |-> Said(reply.fact), opinion |-> Said(reply.opinion)]
        referenced == sections.fact.cites \cup sections.opinion.cites
        resolved == referenced \cap Range(found.citations)
    IN  IF referenced # resolved THEN Failed("unavailable")
        ELSE [answer EXCEPT !.intent = IF @ = "unsupported" THEN "second_opinion" ELSE @,
                            !.perspectives = sections,
                            !.citations = resolved,
                            !.warnings = @ \ {"unsupported_intent"},
                            !.llmUsed = TRUE]

\* What the response model lets through; anything else is a server error.
Deliverable(answer) ==
    /\ \A section \in {answer.perspectives.fact, answer.perspectives.opinion} :
          /\ section.says <=> section.cites # {}
          /\ section.cites \subseteq answer.citations
    /\ Cardinality(answer.citations) <= CitationLimit
    /\ answer.llmUsed => answer.perspectives.fact.says

-----------------------------------------------------------------------------
(* The controller *)

\* The attempts that still count.
Pruned(at) == SelectSeq(attempts, LAMBDA a : a > at - QueryWindow)

\* A page asks about the snapshot it shows, which may no longer be current.
Ask(t, key) ==
    /\ tab[t].pc # "waits"
    /\ IF inFlight[key] # NoFlight
       THEN /\ tab' = [tab EXCEPT ![t] = [pc |-> "waits", key |-> key, on |-> inFlight[key]]]
            /\ UNCHANGED <<attempts, inFlight, flight>>
       ELSE IF Len(Pruned(clock)) >= Limit
       THEN /\ attempts' = Pruned(clock)
            /\ tab' = [tab EXCEPT ![t] = [Idle EXCEPT !.pc = "limited"]]
            /\ UNCHANGED <<inFlight, flight>>
       ELSE /\ Len(flight) < MaxFlights
            /\ attempts' = Append(Pruned(clock), clock)
            /\ flight' = Append(flight, [key |-> key, at |-> clock, pc |-> "reads", result |-> NoFlight])
            /\ inFlight' = [inFlight EXCEPT ![key] = Len(flight')]
            /\ tab' = [tab EXCEPT ![t] = [pc |-> "waits", key |-> key, on |-> Len(flight')]]
    /\ UNCHANGED <<screen, clock, llm>>

Land(f, result) ==
    flight' = [flight EXCEPT ![f].pc = "done", ![f].result = result]

\* The operation reads the headquarters again and answers by rule, unless a
\* verified AI configuration and facts to lean on let it ask the provider.
ReadScreen(f) ==
    LET s == flight[f].key[1]
        q == flight[f].key[2]
        byRule == BuildAssistantResponse(s, q)
        found == AssistantRetrieval[s]
    IN  /\ flight[f].pc = "reads"
        /\ \/ Land(f, Failed("not_found"))
           \/ screen # s /\ Land(f, Failed("snapshot_changed"))
           \/ screen = s /\ (~llm \/ q \in Unsafe) /\ Land(f, byRule)
           \/ /\ screen = s /\ llm /\ q \notin Unsafe
              /\ \/ Land(f, byRule)
                 \/ Land(f, WithWarning(byRule, "ai_configuration"))
                 \/ found.facts = <<>> /\ Land(f, WithWarning(byRule, "insufficient_ai_evidence"))
                 \/ found.facts # <<>> /\ flight' = [flight EXCEPT ![f].pc = "asks"]
        /\ UNCHANGED <<screen, clock, attempts, inFlight, tab, llm>>

\* No usable response: the request failed, was incomplete or was refused.
ProviderFails(f) ==
    /\ flight[f].pc = "asks"
    /\ Land(f, WithWarning(BuildAssistantResponse(flight[f].key[1], flight[f].key[2]),
                           "ai_response_unavailable"))
    /\ UNCHANGED <<screen, clock, attempts, inFlight, tab, llm>>

\* A reply is believed or refused by the validation.
ProviderAnswers(f) ==
    LET s == flight[f].key[1]
        byRule == BuildAssistantResponse(s, flight[f].key[2])
        found == AssistantRetrieval[s]
    IN  /\ flight[f].pc = "asks"
        /\ \E reply \in Replies(found.facts) :
              Land(f, IF ValidateReasoning(reply, found.facts)
                      THEN BuildGenerativeResponse(byRule, reply, found)
                      ELSE WithWarning(byRule, "ai_response_unavailable"))
        /\ UNCHANGED <<screen, clock, attempts, inFlight, tab, llm>>

TimesOut(f) ==
    /\ flight[f].pc \in {"reads", "asks"}
    /\ Land(f, Failed("timeout"))
    /\ UNCHANGED <<screen, clock, attempts, inFlight, tab, llm>>

\* _validate_response_size: the answer, by rule or by the provider, is more bytes
\* than a response may have.
AnswerTooLarge(f) ==
    /\ flight[f].pc = "asks" \/ (flight[f].pc = "reads" /\ screen = flight[f].key[1])
    /\ Land(f, Failed("too_large"))
    /\ UNCHANGED <<screen, clock, attempts, inFlight, tab, llm>>

\* The task's first done callback; until it runs a page may still join.
Complete(f) ==
    /\ flight[f].pc = "done" /\ inFlight[flight[f].key] = f
    /\ inFlight' = [inFlight EXCEPT ![flight[f].key] = NoFlight]
    /\ UNCHANGED <<screen, clock, attempts, flight, tab, llm>>

Receive(t) ==
    /\ tab[t].pc = "waits" /\ flight[tab[t].on].pc = "done"
    /\ tab' = [tab EXCEPT ![t].pc = "shows"]
    /\ UNCHANGED <<screen, clock, attempts, inFlight, flight, llm>>

\* A page that goes away leaves its flight to the others (asyncio.shield).
Leave(t) ==
    /\ tab[t].pc = "waits"
    /\ tab' = [tab EXCEPT ![t] = Idle]
    /\ UNCHANGED <<screen, clock, attempts, inFlight, flight, llm>>

HeadquartersMoves ==
    /\ screen' \in Snapshots \ {screen}
    /\ UNCHANGED <<clock, attempts, inFlight, flight, tab, llm>>

ClockTicks ==
    /\ clock < MaxClock
    /\ clock' = clock + 1
    /\ UNCHANGED <<screen, attempts, inFlight, flight, tab, llm>>

AssistantNext ==
    \/ \E t \in Tabs : (\E key \in Keys : Ask(t, key)) \/ Receive(t) \/ Leave(t)
    \/ \E f \in DOMAIN flight :
          \/ ReadScreen(f) \/ ProviderFails(f) \/ ProviderAnswers(f)
          \/ AnswerTooLarge(f) \/ TimesOut(f) \/ Complete(f)
    \/ HeadquartersMoves \/ ClockTicks

AssistantSpec == AssistantInit /\ [][AssistantNext]_assistantVars

-----------------------------------------------------------------------------
(* Properties *)

\* What a page shows answers the question it asked about the snapshot it
\* shows, leans only on trusted evidence or aggregates of that snapshot, and
\* passes the response model: an answer never ends as a server error because
\* a section cites what its list of citations left out.
AnswersAreSupported ==
    \A t \in Tabs : tab[t].pc = "shows" =>
        LET shown == flight[tab[t].on].result IN
        /\ shown.kind # "unavailable"
        /\ shown.kind = "answer" =>
              /\ shown.snapshot = tab[t].key[1]
              /\ \A c \in shown.citations : c \in Trusted \/ c[1] = shown.snapshot
              /\ Deliverable(shown)
=============================================================================
