------------------------------- MODULE Config -------------------------------
(***************************************************************************)
(* The pipe's one configuration document (hookrelay/config.py), what is    *)
(* refused before it runs, and how a running pipe changes it               *)
(* (hookrelay/app.py: boot, PUT /config, POST /config/reload), with the    *)
(* way a door reads a payload and takes its fingerprint (templates.py,     *)
(* extract.py).                                                            *)
(*                                                                         *)
(* A document is a record of its sections, a template's field reads the    *)
(* payload's key of the same name, "" is what is absent, and the condition *)
(* a `set` stage may carry is left out.                                    *)
(***************************************************************************)
EXTENDS Integers, Sequences, FiniteSets, SequencesExt

CONSTANTS
    Documents,  \* what an operator may send
    Edits,      \* what an operator may write to the file by hand
    Keys        \* the keys of a payload

\* A payload may hold whatever a template of a document reads.
ConfigAssumption ==
    \A doc \in Documents \cup Edits : \A reader \in ToSet(doc.templates) \cup ToSet(doc.sources) :
        reader.fields \subseteq Keys \cup {"source", "level", "title"}

VARIABLES
    file,       \* the document on disk
    running,    \* the document the process runs, NoConfig when it is down
    writable,   \* is the file mounted so that the process can write it
    edited      \* was the file written by hand since the process last took it

configVars == <<file, running, writable, edited>>

NoConfig == [running |-> FALSE]

-----------------------------------------------------------------------------
\* What a document may name.
Reserved    == {"source", "level", "title"}
BuiltIn     == {"title", "body", "level"}
Adapters    == {"default"}
ChannelTypes == {"generic", "bridge"}
Processors  == {"dedup", "silence", "routes", "filter", "fold", "set", "http", "thread_lookup"}
Preserving  == {"dedup", "silence", "routes", "filter", "fold"}
WriteMethods == {"POST", "PUT", "PATCH"}
Kinds       == {"silence", "followup", "approve", "useful", "useless", "remember", "handoff"}
Synthetic   == {"card-action", "absence"}
MaxInlineTimeout == 10

NamesOf(section) == {item.name : item \in ToSet(section)}
Distinct(section) == \A i, j \in DOMAIN section : section[i].name = section[j].name => i = j

IsFallback(selector) == selector.exists = {} /\ selector.equals = <<>> /\ selector.anyOf = {}

Named(doc, name) == CHOOSE template \in ToSet(doc.templates) : template.name = name

\* A door without a list of templates reads by one of its own.
TemplatesFor(doc, src) ==
    IF src.templates = <<>>
    THEN <<[name |-> "inline", kind |-> "extract", fields |-> src.fields,
            selector |-> [exists |-> {}, equals |-> <<>>, anyOf |-> {}]]>>
    ELSE [i \in DOMAIN src.templates |-> Named(doc, src.templates[i])]

TemplatesOK(doc) ==
    /\ \A template \in ToSet(doc.templates) :
          template.kind = "extract" /\ template.fields \cap Reserved = {}
    /\ Distinct(doc.templates)

SourcesOK(doc) ==
    /\ \A src \in ToSet(doc.sources) :
          /\ src.fields \cap Reserved = {} /\ src.adapter \in Adapters
          /\ ToSet(src.templates) \subseteq NamesOf(doc.templates)
          /\ src.templates # <<>> => IsFallback(Named(doc, Last(src.templates)).selector)
    /\ Distinct(doc.sources)

ChannelsOK(doc) ==
    /\ \A ch \in ToSet(doc.channels) :
          /\ ch.type \in ChannelTypes /\ ch.url # "" /\ ch.method \in WriteMethods /\ ch.flatHeaders
    /\ Distinct(doc.channels)

RoutesOK(doc) ==
    \A route \in ToSet(doc.routes) :
        /\ route.source \in {"*"} \cup Synthetic \cup NamesOf(doc.sources)
        /\ route.sendTo # {} /\ route.sendTo \subseteq NamesOf(doc.channels)

DefaultPipeline == [i \in 1..3 |-> [type |-> <<"dedup", "silence", "routes">>[i], sets |-> {},
                                    onError |-> "pass", timeout |-> 3]]
Pipeline(doc) == IF doc.pipeline = <<>> THEN DefaultPipeline ELSE doc.pipeline

PipelineOK(doc) ==
    /\ \A stage \in ToSet(doc.pipeline) :
          /\ stage.type = "http" => stage.onError \in {"pass", "drop"} /\ stage.timeout <= MaxInlineTimeout
          /\ stage.type \in Processors
    /\ \E stage \in ToSet(Pipeline(doc)) : stage.type = "routes"

\* The stages an event passes until its fingerprint is taken: up to the dedup
\* stage, or all of them when it is taken at record time.
FirstDedup(doc) == {i \in DOMAIN Pipeline(doc) : Pipeline(doc)[i].type = "dedup"
                        /\ \A j \in 1..(i - 1) : Pipeline(doc)[j].type # "dedup"}
UpToFingerprint(doc) == {Pipeline(doc)[i] : i \in {k \in DOMAIN Pipeline(doc) :
                            \A d \in FirstDedup(doc) : k <= d}}

\* No stage before the fingerprint may add names of its own.
Enumerable(doc) == \A stage \in UpToFingerprint(doc) : stage.type \in Preserving \cup {"set"}

\* A plausible slip: every `set` stage counts, the ones after dedup too.
VocabularyOfAllStages(doc, src) ==
    BuiltIn \cup (UNION {template.fields : template \in ToSet(TemplatesFor(doc, src))})
            \cup (UNION {stage.sets : stage \in {s \in ToSet(Pipeline(doc)) : s.type = "set"}})

\* _fingerprint_vocabulary: all the door's templates, and what `set` writes down.
Vocabulary(doc, src) ==
    BuiltIn \cup (UNION {template.fields : template \in ToSet(TemplatesFor(doc, src))})
            \cup (UNION {stage.sets : stage \in {s \in UpToFingerprint(doc) : s.type = "set"}})

FingerprintsOK(doc) ==
    Enumerable(doc) => \A src \in ToSet(doc.sources) : ToSet(src.prints) \subseteq Vocabulary(doc, src)

ActionsOK(doc) ==
    /\ \A action \in doc.actions :
          /\ action.kind \in Kinds
          /\ ({action.forward} \cup Range(action.bySource)) \ {""} \subseteq NamesOf(doc.channels)
          /\ DOMAIN action.bySource \subseteq NamesOf(doc.sources)
          /\ ~(action.forward # "" /\ action.bySource # <<>>)
          /\ action.forward = "" /\ action.bySource = <<>> => action.kind = "silence"
    /\ doc.touch \in {""} \cup NamesOf(doc.channels)

EscalationOK(doc) ==
    doc.escalation # {} => /\ \A rule \in doc.escalation : rule.after >= 1 /\ rule.sendTo # {}
                           /\ \A rule \in doc.escalation : rule.sendTo \subseteq NamesOf(doc.channels)

\* Config.from_dict.
Accepted(doc) ==
    /\ TemplatesOK(doc) /\ SourcesOK(doc) /\ ChannelsOK(doc) /\ RoutesOK(doc)
    /\ PipelineOK(doc) /\ FingerprintsOK(doc) /\ ActionsOK(doc) /\ EscalationOK(doc)

Loadable == {doc \in Documents : Accepted(doc)}

-----------------------------------------------------------------------------
\* How a door reads a payload.
Payloads == [Keys -> {"", "x", "y"}]

Matches(selector, payload) ==
    /\ \A key \in selector.exists : payload[key] # ""
    /\ \A key \in DOMAIN selector.equals : payload[key] = selector.equals[key]
    /\ selector.anyOf # {} => \E key \in selector.anyOf : payload[key] # ""

Select(templates, payload) ==
    LET claims == {i \in DOMAIN templates : Matches(templates[i].selector, payload)}
    IN  IF claims = {} THEN Last(templates)
        ELSE templates[CHOOSE i \in claims : \A j \in claims : i <= j]

\* What the event's fields hold when the fingerprint is taken.
Value(doc, src, payload, name) ==
    LET template == Select(TemplatesFor(doc, src), payload)
        set(n)   == \E stage \in UpToFingerprint(doc) : stage.type = "set" /\ n \in stage.sets
    IN  CASE name \in BuiltIn          -> "x"
          [] set(name)                 -> "x"
          [] OTHER -> IF name \in template.fields \cap Keys THEN payload[name] ELSE ""

Fingerprint(doc, src, payload) ==
    [name \in (IF src.prints = <<>> THEN {"title", "body"} ELSE ToSet(src.prints)) |->
        Value(doc, src, payload, name)]

-----------------------------------------------------------------------------
ConfigInit ==
    /\ file \in {doc \in Edits : Accepted(doc)} /\ running = file
    /\ writable \in BOOLEAN /\ edited = FALSE

EditFile == /\ file' \in Edits /\ edited' = TRUE /\ UNCHANGED <<running, writable>>

Stop == /\ running # NoConfig /\ running' = NoConfig /\ UNCHANGED <<file, writable, edited>>

\* A document that does not load stops the boot.
Boot ==
    /\ running = NoConfig /\ Accepted(file)
    /\ running' = file /\ edited' = FALSE /\ UNCHANGED <<file, writable>>

\* put_config: parsed first, written beside and moved over, and only then run.
PutConfig ==
    /\ running # NoConfig /\ writable
    /\ \E doc \in Loadable :
        /\ file' = doc /\ running' = doc /\ edited' = FALSE
    /\ UNCHANGED writable

ReloadConfig ==
    /\ running # NoConfig /\ Accepted(file)
    /\ running' = file /\ edited' = FALSE /\ UNCHANGED <<file, writable>>

ConfigNext == EditFile \/ Stop \/ Boot \/ PutConfig \/ ReloadConfig

-----------------------------------------------------------------------------
\* Every name a running door takes its fingerprint from can be read by the time
\* the fingerprint is taken: some payload gives it a value, unless the templates
\* that extract it stand behind others that claim every payload with such a value
\* first, or a stage before it may add names nobody here knows.  A name that never
\* has a value makes every alert of the door a duplicate of its first
\* (_fingerprint_vocabulary against templates.select and extract.fingerprint).
Unreached(doc, src, name) ==
    /\ \E template \in ToSet(TemplatesFor(doc, src)) : name \in template.fields
    /\ \A payload \in Payloads : payload[name] # "" =>
          name \notin Select(TemplatesFor(doc, src), payload).fields

NamesAreReadable ==
    running # NoConfig /\ Enumerable(running) =>
        \A src \in ToSet(running.sources) : \A name \in ToSet(src.prints) :
            \/ \E payload \in Payloads : Fingerprint(running, src, payload)[name] # ""
            \/ Unreached(running, src, name)
=============================================================================
