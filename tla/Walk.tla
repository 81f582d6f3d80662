-------------------------------- MODULE Walk --------------------------------
(***************************************************************************)
(* An event's walk down the pipeline's stages (hookrelay/pipeline.py and   *)
(* processors.py: filter, set, silence, http, routes) to its one decision, *)
(* beside silences that come and go, and the dry walk of /explain.         *)
(*                                                                         *)
(* A `when` is a function from routing keys to the values it accepts: an   *)
(* exact value, a list and a substring are all such a set.  The keys are   *)
(* the source, the level, the title and one extracted field; no stage      *)
(* reads the body.  The brain behind the http stage writes what it likes   *)
(* on the event, drops it, fails or is late.                               *)
(***************************************************************************)
EXTENDS Integers, Sequences, FiniteSets, FiniteSetsExt, SequencesExt

CONSTANTS
    Pipeline,   \* the configured stages, in order
    Routes,     \* the routes, highest priority first
    Sources, Titles, Levels,
    Values,     \* of the extracted field
    Sampled,    \* the titles whose hash falls in the sampled fraction
    Slots,      \* events walking at once
    MaxTime, MaxEvents, MaxSilences     \* bounds

\* What a stage may write on an event.
Writable == {"title", "level", "field"}

WalkAssumption ==
    /\ {MaxTime, MaxEvents, MaxSilences} \subseteq Nat
    /\ Len(Pipeline) \in Nat /\ DOMAIN Pipeline = 1..Len(Pipeline)
    /\ \A i \in DOMAIN Pipeline : Pipeline[i].type \in {"filter", "set", "silence", "http", "routes"}
    /\ \A i \in DOMAIN Pipeline : Pipeline[i].type = "set" => DOMAIN Pipeline[i].set \subseteq Writable

VARIABLES
    minute,     \* now
    silences,   \* the silences table
    walking,    \* slot -> the event in hand
    decisions   \* the decisions recorded

walkVars == <<minute, silences, walking, decisions>>

Nothing == [stage |-> 0]

\* An arriving event; it remembers the silences it found there, the title they
\* were asked about last and whether the brain refused it.
Arriving(source, title, level, value, dry) ==
    [source |-> source, title |-> title, level |-> level, field |-> value, at |-> minute, stage |-> 1,
     dry |-> dry, channels |-> {}, sample |-> FALSE, found |-> silences, asked |-> title,
     refused |-> FALSE]

WalkInit ==
    /\ minute = 0 /\ silences = {} /\ decisions = <<>>
    /\ walking = [s \in Slots |-> Nothing]

-----------------------------------------------------------------------------
\* _condition_matches, over the whole of a `when`.
Meets(when, event) == \A key \in DOMAIN when : event[key] \in when[key]

\* match_routes: in priority order, up to the first that stops.
RoutedTo(event) ==
    LET hits  == {i \in DOMAIN Routes : Routes[i].source \in {"*", event.source}
                                         /\ Meets(Routes[i].when, event)}
        stops == {i \in hits : Routes[i].stop}
    IN  UNION {Routes[i].sendTo : i \in {h \in hits : \A z \in stops : h <= z}}

\* What a `set` stage and the brain write: the keys they name, and no other.
Written(event, changes) ==
    [key \in DOMAIN event |-> IF key \in DOMAIN changes THEN changes[key] ELSE event[key]]

\* active_silence: on this door or all, this condition or all, not run out.
Covers(silence, event, title) ==
    /\ silence.source \in {"*", event.source} /\ silence.condition \in {"", title}
    /\ silence.until > event.at

Stage(s) == Pipeline[walking[s].stage]
On(s, type) == walking[s] # Nothing /\ walking[s].stage \in DOMAIN Pipeline /\ Stage(s).type = type

\* _record: the event and its decision are one row; a dry walk records nothing.
Recorded(s, event, outcome) ==
    /\ walking' = [walking EXCEPT ![s] = Nothing]
    /\ decisions' = IF event.dry THEN decisions
                    ELSE Append(decisions,
                          [title |-> event.title, outcome |-> outcome, sample |-> event.sample,
                           refused |-> event.refused,
                           covered |-> \E silence \in event.found : Covers(silence, event, event.asked)])
    /\ UNCHANGED <<minute, silences>>

Onward(s, event) ==
    /\ walking' = [walking EXCEPT ![s] = [event EXCEPT !.stage = @ + 1]]
    /\ UNCHANGED <<minute, silences, decisions>>

-----------------------------------------------------------------------------
Minute == minute < MaxTime /\ minute' = minute + 1
          /\ UNCHANGED <<silences, walking, decisions>>

\* create_silence.
AddSilence ==
    /\ Cardinality(silences) < MaxSilences
    /\ \E source \in Sources \cup {"*"}, title \in Titles \cup {""}, minutes \in {1, 2} :
          silences' = silences \cup {[source |-> source, condition |-> title, until |-> minute + minutes]}
    /\ UNCHANGED <<minute, walking, decisions>>

\* remove_silence.
LiftSilence ==
    /\ \E silence \in silences :
          /\ silences' = silences \ {silence}
          /\ walking' = [s \in Slots |-> IF walking[s] = Nothing THEN Nothing
                                          ELSE [walking[s] EXCEPT !.found = @ \ {silence}]]
    /\ UNCHANGED <<minute, decisions>>

\* handle_hook, and explain with dry_run.
Arrive(s) ==
    /\ walking[s] = Nothing
    /\ Cardinality({x \in Slots : walking[x] # Nothing}) + Len(decisions) < MaxEvents
    /\ \E source \in Sources, title \in Titles, level \in Levels, value \in Values, dry \in BOOLEAN :
          walking' = [walking EXCEPT ![s] = Arriving(source, title, level, value, dry)]
    /\ UNCHANGED <<minute, silences, decisions>>

\* FilterProcessor, and the sample it may keep.
Filter(s) ==
    /\ On(s, "filter")
    /\ LET event   == walking[s]
           matched == Stage(s).when # <<>> /\ Meets(Stage(s).when, event)
       IN  \/ ~matched /\ Onward(s, event)
           \/ /\ matched /\ event.title \in Sampled
              /\ Onward(s, [event EXCEPT !.sample = TRUE])
           \/ matched /\ event.title \notin Sampled /\ Recorded(s, event, "skipped")

\* SetProcessor.
Enrich(s) ==
    /\ On(s, "set")
    /\ Onward(s, IF Meets(Stage(s).when, walking[s])
                 THEN Written(walking[s], Stage(s).set) ELSE walking[s])

\* SilenceProcessor.
Silence(s) ==
    /\ On(s, "silence")
    /\ IF \E silence \in silences : Covers(silence, walking[s], walking[s].title)
       THEN Recorded(s, walking[s], "skipped")
       ELSE Onward(s, [walking[s] EXCEPT !.asked = walking[s].title])

\* HttpProcessor on another lane, or on a dry walk.
PassBy(s) ==
    /\ On(s, "http")
    /\ walking[s].dry \/ ~Meets(Stage(s).when, walking[s])
    /\ Onward(s, walking[s])

AsksTheBrain(s) == On(s, "http") /\ Meets(Stage(s).when, walking[s]) /\ ~walking[s].dry

\* What the brain may set: one key, some or all; a value left as it was is none.
Changes == [title : Titles, level : Levels, field : Values]

\* The brain answers: what it sets is on the event, whether it passes it or drops
\* it.  An answer that is no object raises out of the walk, and the door's handler
\* with it: nothing is recorded.
Judge(s) ==
    /\ AsksTheBrain(s)
    /\ \/ \E changes \in Changes :
             \/ Onward(s, Written(walking[s], changes))
             \/ Recorded(s, [Written(walking[s], changes) EXCEPT !.refused = TRUE], "skipped")
       \/ walking' = [walking EXCEPT ![s] = Nothing] /\ UNCHANGED <<minute, silences, decisions>>

\* A slip: every failed call lets the event through.
FailOpen(s) == AsksTheBrain(s) /\ Onward(s, [walking[s] EXCEPT !.refused = Stage(s).onError = "drop"])

\* It does not: the stage's policy decides.
BrainFails(s) ==
    /\ AsksTheBrain(s)
    /\ IF Stage(s).onError = "drop"
       THEN Recorded(s, [walking[s] EXCEPT !.refused = TRUE], "skipped")
       ELSE Onward(s, walking[s])

\* RoutesProcessor.
Route(s) == On(s, "routes")
            /\ Onward(s, [walking[s] EXCEPT !.channels = RoutedTo(walking[s])])

\* The walk is over: routed when it has channels.
Decide(s) ==
    /\ walking[s] # Nothing /\ walking[s].stage \notin DOMAIN Pipeline
    /\ Recorded(s, walking[s], IF walking[s].channels = {} THEN "skipped" ELSE "routed")

WalkNext ==
    \/ Minute \/ AddSilence \/ LiftSilence
    \/ \E s \in Slots : \/ Arrive(s) \/ Filter(s) \/ Enrich(s) \/ Silence(s) \/ PassBy(s) \/ Judge(s)
                        \/ BrainFails(s) \/ Route(s) \/ Decide(s)

-----------------------------------------------------------------------------
\* What is routed was let through: no silence made before it came and still
\* there covers it under the title it had when it was last asked about, whatever
\* the brain or a later stage named it since; and a brain whose stage fails closed
\* neither refused it nor missed it (SilenceProcessor, HttpProcessor).
RoutedWasLetThrough ==
    \A i \in DOMAIN decisions : decisions[i].outcome = "routed" =>
        ~decisions[i].covered /\ ~decisions[i].refused
=============================================================================
