--------------------------------- MODULE Desk ----------------------------------
(***************************************************************************)
(* What goes out and comes back: the pipe's outbox (Delivery), its card    *)
(* buttons, folding, vigilance and alarm, the chat bridge, the watch over  *)
(* the chats, the signer, the tool gate and the proxy beside it.           *)
(*                                                                         *)
(* They are programs, or parts of one, that share no state.  One behaviour *)
(* here is a behaviour of one of them: the initial state picks the part    *)
(* that runs, the others rest.  So one run checks them all and one module  *)
(* proves about them.                                                      *)
(***************************************************************************)
EXTENDS Delivery

CONSTANTS
    \* Cards
    Buttons, KindOf, Requests, CardTtl, CardTime, CardRows, CardFaults,
    \* Fold
    FoldWindow, FoldCeiling, Slots, FoldTime, MaxEvents,
    \* Vigil, and the alarm
    ColdAfter, Expected, VigilTime, MaxDeaths, Failures, MinInterval, AlarmTime,
    \* Watch
    Feeds, Batched, Utterances, PerChat, JiraPage, BatchFor, RunTimeout, RunCap, GiveUpAfter,
    MaxReplays, Renote, MaxNews, WatchFaults, Nobody,
    \* Signer
    Posts, Topics, SignCeiling, SignWindow, SignTime, Unsaid,
    \* Egress: the gate, the proxy
    ItemIds, MaxBatch, Hosts, ListedHosts, Peers, Public, Compose, Elsewhere, MaxAddrs,
    \* Bridge
    Consumers, IdleRecycle, ThreadParts, WebhookMode

VARIABLES part,         \* the part this behaviour is about
          sec, spent, request, told, outbox, done, rows, claims,
          handing, acts, filed, cuts, trouble,                      \* Cards
          clock, events, inHand, sweep, nextSettle, swept,          \* Fold
          hour, alert, again, spoke, claimed, alarms, loop,
          deaths,                                                   \* Vigil
          moment, lastSent, suppressed, failure, reported,          \* Alarm
          said, tickets, feeds, staged, replay, skipped, heldBack,
          faulted, offer, jira, jiraStaged, noted, run, strays,
          pc, work, ticked, judged, forgone, given, gap, floor,
          faults,                                                   \* Watch
          now, scan, counts, post,                                  \* Signer
          message, ledger, unlogged, reached, answers,              \* Gate
          resolver, conn, dialled,                                  \* Egress
          bus, stream, idle, stopped, hasty, card                   \* Bridge

C == INSTANCE Cards WITH Ttl <- CardTtl, MaxTime <- CardTime, MaxRows <- CardRows,
        MaxFaults <- CardFaults
F == INSTANCE Fold WITH Window <- FoldWindow, Ceiling <- FoldCeiling, MaxTime <- FoldTime
V == INSTANCE Vigil WITH MaxTime <- VigilTime
W == INSTANCE Watch WITH Kinds <- Utterances, held <- heldBack, MaxFaults <- WatchFaults
S == INSTANCE Signer WITH Subjects <- Topics, Ceiling <- SignCeiling, Window <- SignWindow, MaxTime <- SignTime
E == INSTANCE Egress WITH Ids <- ItemIds
B == INSTANCE Bridge WITH Parts <- ThreadParts

ASSUME DeskAssumption ==
    /\ W!WatchAssumption /\ S!SignerAssumption /\ E!EgressAssumption /\ B!BridgeAssumption
    /\ C!CardsAssumption /\ F!FoldAssumption /\ V!VigilAssumption

Parts == {"outbox", "cards", "fold", "vigil", "alarm", "watch", "signer", "gate", "egress",
          "bridge"}

cardVars == <<sec, spent, request, told, outbox, done, rows, claims, handing, acts, filed, cuts,
               trouble>>
foldVars == <<clock, events, inHand, sweep, nextSettle, swept>>
vigilVars == <<hour, alert, again, spoke, claimed, alarms, loop, deaths>>
alarmVars == <<moment, lastSent, suppressed, failure, reported>>
watchVars == <<said, tickets, feeds, staged, replay, skipped, heldBack, faulted, offer, jira,
                jiraStaged, noted, run, strays, pc, work, ticked, judged, forgone, given, gap,
                floor, faults>>
signerVars == <<now, scan, counts, post>>
gateVars == <<message, ledger, unlogged, reached, answers>>
egressVars == <<resolver, conn, dialled>>
bridgeVars == <<bus, stream, idle, stopped, hasty, card>>

\* What a part holds that does not run.
CardRests == sec = 0 /\ spent = 0 /\ request = 0 /\ told = 0 /\ outbox = 0 /\ done = 0
              /\ rows = 0 /\ claims = 0 /\ handing = 0 /\ acts = 0 /\ filed = 0 /\ cuts = 0
              /\ trouble = 0
FoldRests == clock = 0 /\ events = 0 /\ inHand = 0 /\ sweep = 0 /\ nextSettle = 0 /\ swept = 0
VigilRests == hour = 0 /\ alert = 0 /\ again = 0 /\ spoke = 0 /\ claimed = 0 /\ alarms = 0
               /\ loop = 0 /\ deaths = 0
AlarmRests == moment = 0 /\ lastSent = 0 /\ suppressed = 0 /\ failure = 0 /\ reported = 0
WatchRests == said = 0 /\ tickets = 0 /\ feeds = 0 /\ staged = 0 /\ replay = 0 /\ skipped = 0
               /\ heldBack = 0 /\ faulted = 0 /\ offer = 0 /\ jira = 0 /\ jiraStaged = 0
               /\ noted = 0 /\ run = 0 /\ strays = 0 /\ pc = 0 /\ work = 0 /\ ticked = 0
               /\ judged = 0 /\ forgone = 0 /\ given = 0 /\ gap = 0 /\ floor = 0 /\ faults = 0
SignerRests == now = 0 /\ scan = 0 /\ counts = 0 /\ post = 0
GateRests == message = 0 /\ ledger = 0 /\ unlogged = 0 /\ reached = 0 /\ answers = 0
EgressRests == resolver = 0 /\ conn = 0 /\ dialled = 0
BridgeRests == bus = 0 /\ stream = 0 /\ idle = 0 /\ stopped = 0 /\ hasty = 0 /\ card = 0

DeskInit ==
    /\ part \in Parts
    /\ Init
    /\ IF part = "cards" THEN C!CardsInit ELSE CardRests
    /\ IF part = "fold" THEN F!FoldInit ELSE FoldRests
    /\ IF part = "vigil" THEN V!VigilInit ELSE VigilRests
    /\ IF part = "alarm" THEN V!AlarmInit ELSE AlarmRests
    /\ IF part = "watch" THEN W!Init ELSE WatchRests
    /\ IF part = "signer" THEN S!SignerInit ELSE SignerRests
    /\ IF part = "gate" THEN E!GateInit ELSE GateRests
    /\ IF part = "egress" THEN E!EgressInit ELSE EgressRests
    /\ IF part = "bridge" THEN B!BridgeInit ELSE BridgeRests

\* The part that runs is p: everything else stays as it is.
Still(p) ==
    /\ UNCHANGED part
    /\ IF p = "outbox" THEN TRUE ELSE UNCHANGED vars
    /\ IF p = "cards" THEN TRUE ELSE UNCHANGED cardVars
    /\ IF p = "fold" THEN TRUE ELSE UNCHANGED foldVars
    /\ IF p = "vigil" THEN TRUE ELSE UNCHANGED vigilVars
    /\ IF p = "alarm" THEN TRUE ELSE UNCHANGED alarmVars
    /\ IF p = "watch" THEN TRUE ELSE UNCHANGED watchVars
    /\ IF p = "signer" THEN TRUE ELSE UNCHANGED signerVars
    /\ IF p = "gate" THEN TRUE ELSE UNCHANGED gateVars
    /\ IF p = "egress" THEN TRUE ELSE UNCHANGED egressVars
    /\ IF p = "bridge" THEN TRUE ELSE UNCHANGED bridgeVars

DeskNext ==
    \/ part = "outbox" /\ Next /\ Still("outbox")
    \/ part = "cards" /\ C!CardsNext /\ Still("cards")
    \/ part = "fold" /\ F!FoldNext /\ Still("fold")
    \/ part = "vigil" /\ V!VigilNext /\ Still("vigil")
    \/ part = "alarm" /\ V!AlarmNext /\ Still("alarm")
    \/ part = "watch" /\ W!Next /\ Still("watch")
    \/ part = "signer" /\ S!SignerNext /\ Still("signer")
    \/ part = "gate" /\ E!GateNext /\ Still("gate")
    \/ part = "egress" /\ E!EgressNext /\ Still("egress")
    \/ part = "bridge" /\ B!BridgeNext /\ Still("bridge")

deskVars == <<part, vars, cardVars, foldVars, vigilVars, alarmVars, watchVars, signerVars,
              gateVars, egressVars, bridgeVars>>

DeskSpec == DeskInit /\ [][DeskNext]_deskVars

-----------------------------------------------------------------------------
\* Cards: a card that says accepted was acted on.
AcceptedWasActed == part = "cards" => C!AcceptedWasActed
\* Cards: of the rulings pressed on an alert, the latest stands.
LatestRulingStands == part = "cards" => C!LatestRulingStands
\* Cards: a press is acted on once, however often it is delivered.
OneActPerPress == part = "cards" => C!OneActPerPress
\* Fold: a condition that is firing was told of.
FiringIsTold == part = "fold" => F!FiringIsTold
\* Vigil: an absence is said once, whoever dies while saying it.
SaidOnce == part = "vigil" => V!SaidOnce
\* Alarm: every failure is in a message or still counted.
NoneUncounted == part = "alarm" => V!NoneUncounted
\* Watch: what people wrote reaches a run, unless it came in the gap the scan documents.
OnlyTheGapSlips == part = "watch" => W!OnlyTheGapSlips
\* Signer: a round never puts more signals through than its ceiling.
CeilingHolds == part = "signer" => S!CeilingHolds
\* Tool gate: the ledger's rows tell what reached the tools, those that could be
\* written.
RowsTellWhatReached == part = "gate" => E!RowsTellWhatReached
\* Proxy: whatever is dialled was decided upon as the address it is.
DialledWasVetted == part = "egress" => E!DialledWasVetted
\* Bridge: the bus is not recycled again before another silence.
RecyclesFarApart == part = "bridge" => B!RecyclesFarApart
=============================================================================
