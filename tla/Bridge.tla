-------------------------------- MODULE Bridge --------------------------------
(***************************************************************************)
(* The chat bridge (deploy/lark-bridge/bridge.py): two consumers of the    *)
(* application's one event bus, the watchdog that recycles a bus gone      *)
(* quiet, and the handler that posts the pipe's cards in the chat.         *)
(*                                                                         *)
(* The bus is lark-cli's daemon and the chat is Lark's: both external.  A  *)
(* unit of time is the watchdog's check.  Handler threads share nothing,   *)
(* so one card is enough.                                                  *)
(***************************************************************************)
EXTENDS Integers

CONSTANTS
    Consumers,      \* event streams, "presses" among them
    IdleRecycle,    \* BRIDGE_IDLE_RECYCLE_SECONDS, in checks
    Parts,          \* detail_cards of the full text
    WebhookMode     \* one destination, no threads and no events

BridgeAssumption ==
    /\ "presses" \in Consumers /\ IdleRecycle \in Nat \ {0}
    /\ Parts \in Nat /\ WebhookMode \in BOOLEAN

VARIABLES
    bus,        \* the daemon: "down", "up", or "dead" (up, its socket silent)
    stream,     \* each consumer: waiting for a bus, connecting, attached, backing off
    idle,       \* checks since the last event or connection, up to the limit
    stopped,    \* history: checks since the last recycle, up to the limit
    hasty,      \* history: two recycles came closer than the silence they wait for
    card        \* the pipe's card: where it is, parts posted, whether it landed, the answer

busVars    == <<bus, stream, idle, stopped, hasty>>
bridgeVars == <<busVars, card>>

Start(c) == IF c = "presses" THEN "connecting" ELSE "waiting"

BridgeInit ==
    /\ bus = "down" /\ idle = 0 /\ stopped = IdleRecycle /\ hasty = FALSE
    /\ stream = [c \in Consumers |-> IF WebhookMode THEN "none" ELSE Start(c)]
    /\ card = [pc |-> "new", posted |-> 0, landed |-> FALSE, answer |-> "none"]

-----------------------------------------------------------------------------
\* bus_running: only the presses consumer may open a bus; another waits for it.
SeesBus(c) ==
    /\ stream[c] = "waiting" /\ bus # "down"
    /\ stream' = [stream EXCEPT ![c] = "connecting"]
    /\ UNCHANGED <<bus, idle, stopped, hasty, card>>

\* consume: the clock is reset and lark-cli attaches to the bus, or opens one.
Connect(c) ==
    /\ stream[c] = "connecting"
    /\ idle' = 0
    /\ stream' = [stream EXCEPT ![c] = "attached"]
    /\ bus' = IF bus = "down" THEN "up" ELSE bus
    /\ UNCHANGED <<stopped, hasty, card>>

\* Another bus holds the application's one connection, or it cannot be reached.
ConnectFails(c) ==
    /\ stream[c] = "connecting"
    /\ idle' = 0
    /\ stream' = [stream EXCEPT ![c] = "backoff"]
    /\ UNCHANGED <<bus, stopped, hasty, card>>

\* The penalty is over.
BackOver(c) ==
    /\ stream[c] = "backoff"
    /\ stream' = [stream EXCEPT ![c] = Start(c)]
    /\ UNCHANGED <<bus, idle, stopped, hasty, card>>

\* Any event on any stream proves the bus: note_event.
Event(c) ==
    /\ stream[c] = "attached" /\ bus = "up" /\ idle' = 0
    /\ UNCHANGED <<bus, stream, stopped, hasty, card>>

\* The bus ends, and with it every stream attached to it; or one stream does.
Detached(S) == [c \in Consumers |-> IF c \in S /\ stream[c] = "attached" THEN "backoff" ELSE stream[c]]

BusEnds ==
    /\ bus # "down" /\ bus' = "down"
    /\ stream' = Detached(Consumers)
    /\ UNCHANGED <<idle, stopped, hasty, card>>

StreamDrops(c) ==
    /\ stream[c] = "attached" /\ stream' = Detached({c})
    /\ UNCHANGED <<bus, idle, stopped, hasty, card>>

\* The socket dies and nothing ends: from here a quiet night looks the same.
BusGoesSilent ==
    /\ bus = "up" /\ bus' = "dead"
    /\ UNCHANGED <<stream, idle, stopped, hasty, card>>

Later(t) == IF t < IdleRecycle THEN t + 1 ELSE t

\* Seeded fault: a recycle that was refused leaves the clock where it was.
RecycleWhenIdleOnSuccess(works) ==
    /\ ~WebhookMode
    /\ IF Later(idle) < IdleRecycle
       THEN /\ idle' = Later(idle) /\ stopped' = Later(stopped)
            /\ UNCHANGED <<bus, stream, hasty>>
       ELSE /\ idle' = IF works THEN 0 ELSE Later(idle)
            /\ stopped' = 0
            /\ hasty' = (hasty \/ Later(stopped) < IdleRecycle)
            /\ IF works THEN bus' = "down" /\ stream' = Detached(Consumers)
                        ELSE UNCHANGED <<bus, stream>>
    /\ UNCHANGED card

\* recycle_when_idle, a check later: a long silence stops the bus, or fails to,
\* and the clock restarts whatever happened.
RecycleWhenIdle(works) ==
    /\ ~WebhookMode
    /\ IF Later(idle) < IdleRecycle
       THEN /\ idle' = Later(idle) /\ stopped' = Later(stopped)
            /\ UNCHANGED <<bus, stream, hasty>>
       ELSE /\ idle' = 0 /\ stopped' = 0
            /\ hasty' = (hasty \/ Later(stopped) < IdleRecycle)
            /\ IF works THEN bus' = "down" /\ stream' = Detached(Consumers)
                        ELSE UNCHANGED <<bus, stream>>
    /\ UNCHANGED card

-----------------------------------------------------------------------------
\* do_POST: refused unsigned, too long, not a card, or for a chat not served; a
\* dry run renders and sends nothing.
Accept(how) ==
    /\ card.pc = "new"
    /\ card' = CASE how = "refused" -> [card EXCEPT !.pc = "over", !.answer = "failed"]
                 [] how = "dry run" -> [card EXCEPT !.pc = "over", !.answer = "rendered"]
                 [] how = "send"    -> [card EXCEPT !.pc = "sending"]
    /\ UNCHANGED busVars

\* send_card through lark-cli, or send_webhook: the platform takes it, refuses
\* it (502), or takes it while the answer is cut or cannot be read.
SendCard(lands, said) ==
    /\ card.pc = "sending"
    /\ card' = [card EXCEPT !.landed = lands,
                  !.pc = IF lands /\ said THEN "following" ELSE "over",
                  !.answer = IF lands /\ said THEN "none" ELSE "failed"]
    /\ UNCHANGED busVars

\* follow_in_thread, one part: posted, or refused, which ends the parts.
FollowInThread(posted) ==
    /\ card.pc = "following" /\ ~WebhookMode /\ card.posted < Parts
    /\ card' = IF posted THEN [card EXCEPT !.posted = @ + 1]
                         ELSE [card EXCEPT !.pc = "over", !.answer = "delivered"]
    /\ UNCHANGED busVars

\* lark-cli says nothing for a minute: the exception is nobody's here, and the
\* handler's thread ends with the card in the chat and no answer.
FollowHangs ==
    /\ card.pc = "following" /\ ~WebhookMode /\ card.posted < Parts
    /\ card' = [card EXCEPT !.pc = "over", !.answer = "failed"]
    /\ UNCHANGED busVars

Reply ==
    /\ card.pc = "following" /\ (WebhookMode \/ card.posted = Parts)
    /\ card' = [card EXCEPT !.pc = "over", !.answer = "delivered"]
    /\ UNCHANGED busVars

BridgeNext ==
    \/ \E c \in Consumers : SeesBus(c) \/ Connect(c) \/ ConnectFails(c) \/ BackOver(c)
                            \/ Event(c) \/ StreamDrops(c)
    \/ BusEnds \/ BusGoesSilent
    \/ \E yes \in BOOLEAN : RecycleWhenIdle(yes) \/ FollowInThread(yes)
    \/ \E how \in {"refused", "dry run", "send"} : Accept(how)
    \/ \E lands, said \in BOOLEAN : SendCard(lands, said)
    \/ FollowHangs \/ Reply

BridgeSpec == BridgeInit /\ [][BridgeNext]_bridgeVars

-----------------------------------------------------------------------------
\* One recycle never becomes a storm: between two of them lies the whole silence
\* they wait for, refused or not, however often the streams reconnect.
RecyclesFarApart == ~hasty

=============================================================================
