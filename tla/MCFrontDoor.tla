----------------------------- MODULE MCFrontDoor -----------------------------
(***************************************************************************)
(* A small instance of each part of Entry for TLC, the front door with two *)
(* copies of one signed request beside an unsigned restatement of its      *)
(* alert.                                                                  *)
(***************************************************************************)
EXTENDS Entry, TLC

CONSTANTS first, copy, other, sig, alert   \* requests at the door

MCSignatures == [r \in Requests |-> IF r = other THEN Unsigned ELSE sig]
MCAlerts     == [r \in Requests |-> alert]

\* The document the others differ from in one place.
Deduped == [type |-> "dedup", sets |-> {}, onError |-> "pass", timeout |-> 3]
Routes == [Deduped EXCEPT !.type = "routes"]
Adds   == [Deduped EXCEPT !.type = "set", !.sets = {"h"}]
Asks   == [Deduped EXCEPT !.type = "http"]
AnyPayload == [exists |-> {}, equals |-> <<>>, anyOf |-> {}]
Template(name, fields, selector) ==
    [name |-> name, kind |-> "extract", fields |-> fields, selector |-> selector]
Door   == [name |-> "door", adapter |-> "default", templates |-> <<>>, fields |-> {"f"}, prints |-> <<>>]
Target == [name |-> "chat", type |-> "bridge", url |-> "u", method |-> "POST", flatHeaders |-> TRUE]
Press  == [kind |-> "approve", forward |-> "chat", bySource |-> <<>>]
Base ==
    [templates |-> <<Template("T1", {"f"}, [AnyPayload EXCEPT !.exists = {"f"}]),
                     Template("T2", {"g"}, [AnyPayload EXCEPT !.equals = "f" :> "y", !.anyOf = {"f", "g"}]),
                     Template("T3", {}, AnyPayload),
                     Template("T4", {}, [AnyPayload EXCEPT !.exists = {"g"}]),
                     Template("T5", {"g"}, AnyPayload)>>,
     sources |-> <<Door>>, channels |-> <<Target>>, pipeline |-> <<>>,
     routes |-> <<[source |-> "door", sendTo |-> {"chat"}]>>,
     actions |-> {Press}, touch |-> "chat", escalation |-> {[after |-> 5, sendTo |-> {"chat"}]}]

\* Every way to read a door's payloads and take a fingerprint from them.
Readings ==
    {[Base EXCEPT !.sources = <<[Door EXCEPT !.templates = templates, !.prints = prints]>>,
                  !.pipeline = pipeline] :
        templates \in {<<>>, <<"T3">>, <<"T1">>, <<"T1", "T2", "T3">>, <<"T3", "T2", "T3">>, <<"T4", "T5">>,
                      <<"ghost">>},
        prints \in {<<>>, <<"f">>, <<"g">>, <<"h">>, <<"title", "u">>},
        pipeline \in {<<>>, <<Routes>>, <<Deduped>>, <<Deduped, Routes>>, <<Adds, Deduped, Routes>>,
                      <<Deduped, Adds, Routes>>, <<Routes, Adds>>, <<Asks, Deduped, Routes>>,
                      <<Deduped, Asks, Adds, Routes>>}}

\* One section changed, for each thing a section is refused for.
Variants ==
    {Base, [Base EXCEPT !.templates[1].fields = {"level"}], [Base EXCEPT !.templates[1].name = "T2"],
     [Base EXCEPT !.sources[1].fields = {"title"}], [Base EXCEPT !.sources[1].adapter = "other"],
     [Base EXCEPT !.sources = @ \o @],
     [Base EXCEPT !.channels[1].type = "other"], [Base EXCEPT !.channels[1].url = ""],
     [Base EXCEPT !.channels[1].method = "GET"], [Base EXCEPT !.channels[1].flatHeaders = FALSE],
     [Base EXCEPT !.channels = @ \o @],
     [Base EXCEPT !.routes[1].source = "ghost"], [Base EXCEPT !.routes[1].source = "absence"],
     [Base EXCEPT !.routes[1].sendTo = {}], [Base EXCEPT !.routes[1].sendTo = {"ghost"}],
     [Base EXCEPT !.pipeline = <<Routes, [Asks EXCEPT !.onError = "fail"]>>],
     [Base EXCEPT !.pipeline = <<Routes, [Asks EXCEPT !.timeout = 11]>>],
     [Base EXCEPT !.pipeline = <<Deduped, [Deduped EXCEPT !.type = "other"], Routes>>],
     [Base EXCEPT !.actions = {[Press EXCEPT !.kind = "other"]}],
     [Base EXCEPT !.actions = {[Press EXCEPT !.forward = ""]}],
     [Base EXCEPT !.actions = {[Press EXCEPT !.forward = "", !.bySource = "door" :> "chat"]}],
     [Base EXCEPT !.actions = {[Press EXCEPT !.bySource = "door" :> "chat"]}],
     [Base EXCEPT !.touch = "ghost"], [Base EXCEPT !.escalation = {}],
     [Base EXCEPT !.escalation = {[after |-> 0, sendTo |-> {"chat"}]}],
     [Base EXCEPT !.escalation = {[after |-> 5, sendTo |-> {"ghost"}]}]}

\* A stage of each kind: the brain's fails closed, as the interceptor's does.
MCStages == <<[type |-> "filter", when |-> "level" :> {"low"}],
              [type |-> "set", when |-> "title" :> {"old"}, set |-> "title" :> "disk" @@ "field" :> "db"],
              [type |-> "silence"],
              [type |-> "http", when |-> "level" :> {"high"}, onError |-> "drop"],
              [type |-> "set", when |-> "title" :> {"disk"}, set |-> "level" :> "high"],
              [type |-> "routes"]>>
MCRoutes == <<[source |-> "door", when |-> "level" :> {"high"} @@ "field" :> {"db"}, sendTo |-> {"chat"}, stop |-> TRUE],
              [source |-> "*", when |-> <<>>, sendTo |-> {"brain"}, stop |-> FALSE]>>

\* A topic's id is negative.
OneTopic == {-1}

Copies == Permutations({first, copy})
=============================================================================
