-------------------------------- MODULE Agent --------------------------------
(***************************************************************************)
(* A question to Claude: claude_ask_with_tools (claude/claude.c) with its   *)
(* rounds, its static message array and its tool calls; https_post and the  *)
(* one TLS connection below it; and the crash report of a kernel panic,     *)
(* which takes the same way down.                                           *)
(*                                                                          *)
(* A message is its role, the tool calls it makes or answers, and a size.   *)
(* The server answers anything, but a body that was not sent never gets a   *)
(* 200.  What a tool does is left out; that it was executed is kept.        *)
(* Brackets, commas and the wrapping of a message are less than a unit.     *)
(* The set-up dialogue is one step of the user's.                           *)
(*                                                                          *)
(* AlwaysRoom, LeftOut, Roomy, Unclosed and NotCounted are wrong variants   *)
(* of the definition behind them; no action uses them.                      *)
(***************************************************************************)
EXTENDS Integers, Sequences, FiniteSets, SequencesExt, FiniteSetsExt

CONSTANTS
  MAX_TOOL_ROUNDS, MAX_TOOL_CALLS, MAX_MESSAGES,
  CONTENT,           \* sizeof of a message's content
  SAFETY,            \* what must remain of it for another result
  REQUEST_BODY,      \* sizeof(request_body)
  REQ,               \* sizeof(req) in https_post
  HEADERS, FIXED,    \* the headers; all of a body but its messages
  REPORT,            \* the body of a crash report
  ANTHROPIC_API_KEY, \* whether config.h has a key
  TextSizes, ResultSizes,
  MAX_CALLS          \* bound on the calls of one reply

ASSUME LimitsAssumption ==
  /\ {MAX_TOOL_ROUNDS, MAX_TOOL_CALLS, MAX_MESSAGES, CONTENT, SAFETY, REQ,
      REQUEST_BODY, HEADERS, FIXED, REPORT, MAX_CALLS} \subseteq Nat \ {0}
  /\ TextSizes \subseteq 1 .. CONTENT - 1 /\ ResultSizes \subseteq Nat \ {0}
  /\ ANTHROPIC_API_KEY \in BOOLEAN
  /\ REQ < REQUEST_BODY /\ HEADERS + REPORT < REQ

(* With the sizes of the source, a message with less than SAFETY left is    *)
(* part of a request that does not fit: 4.3 KB are always in it, and        *)
(* 4.3 + 4 - 0.1 > 6 KB.                                                    *)
ASSUME ReqIsTightest == HEADERS + FIXED + CONTENT - SAFETY >= REQ

VARIABLES
  pc,
  mode,          \* "agent", or "report" once the kernel panics
  irq,           \* interrupts are enabled: hlt ends
  configured,    \* claude_is_configured: there is a key
  round, messages,
  calls, done,   \* the calls parsed, and how many were executed
  content,       \* the results so far: the calls answered, their size
  tls,           \* tls_in_use, connected, and the TCP slot behind it
  wire,          \* ghost: the request of this round, as it was sent
  executed,      \* ghost: the calls executed for this question
  told,          \* ghost: those of them the server has been told of
  outcome        \* ghost: how the last question ended

ask == << round, messages, calls, done, content >>
ghosts == << executed, told, outcome >>
vars == << pc, mode, irq, configured, ask, tls, wire, ghosts >>

USER == "user"  ASSISTANT == "assistant"  TOOL == "tool"
Message(role, ids, size) == [role |-> role, ids |-> ids, size |-> size]

Free == [in_use |-> FALSE, connected |-> FALSE, tcp |-> FALSE]
NoRequest == [announced |-> 0, sent |-> 0]
NoResults == [ids |-> << >>, size |-> 0]

-----------------------------------------------------------------------------
Init ==
  /\ pc = "idle" /\ mode = "agent" /\ irq = TRUE /\ configured = ANTHROPIC_API_KEY
  /\ round = 0 /\ messages = << >> /\ calls = << >> /\ done = 0 /\ content = NoResults
  /\ tls = Free /\ wire = NoRequest
  /\ executed = {} /\ told = {} /\ outcome = "none"

(* Return to the caller, or to the panic screen, which waits for a key.     *)
Return(how) ==
  /\ pc' = (IF mode = "agent" THEN "idle" ELSE "key")
  /\ outcome' = how

(* message_count is set to 1: what an earlier question left is forgotten.   *)
Begin(size) == << Message(USER, << >>, size) >>
Start ==
  /\ \E size \in TextSizes : messages' = Begin(size)
  /\ round' = 0 /\ pc' = "round"
  /\ UNCHANGED << calls, done, content >>

(* Without a key the user is asked for one first.                           *)
Ask ==
  /\ pc = "idle"
  /\ \/ configured /\ Start
     \/ ~configured /\ pc' = "setup" /\ UNCHANGED ask
  /\ executed' = {} /\ told' = {} /\ outcome' = "none" /\ wire' = NoRequest
  /\ UNCHANGED << configured, mode, irq, tls >>

(* claude_interactive_setup, within a question and as the config command.   *)
(* What is typed may be a key, nothing, or too short for one.               *)
SetUp ==
  /\ pc = "setup"
  /\ \/ configured' = TRUE /\ Start /\ UNCHANGED outcome
     \/ configured' = FALSE /\ Return("no key") /\ UNCHANGED ask
  /\ UNCHANGED << mode, irq, tls, wire, executed, told >>

Config ==
  /\ pc = "idle"
  /\ configured' \in BOOLEAN
  /\ UNCHANGED << pc, mode, irq, ask, tls, wire, ghosts >>

AnotherRound == round < MAX_TOOL_ROUNDS
NotCounted == round
Counted == round + 1

LimitReached ==
  /\ pc = "round" /\ ~AnotherRound
  /\ Return("limit")
  /\ UNCHANGED << configured, mode, irq, ask, tls, wire, executed, told >>

StartRound ==
  /\ pc = "round" /\ AnotherRound
  /\ pc' = "connect"
  /\ UNCHANGED << configured, mode, irq, ask, tls, wire, ghosts >>

-----------------------------------------------------------------------------
(* tls_connect.  The address and the connection are waited for with hlt.    *)
Busy ==
  /\ pc = "connect" /\ tls.in_use
  /\ Return("failed")
  /\ UNCHANGED << configured, mode, irq, ask, tls, wire, executed, told >>

NoConnection ==
  /\ pc = "connect" /\ ~tls.in_use /\ irq
  /\ Return("failed")
  /\ UNCHANGED << configured, mode, irq, ask, tls, wire, executed, told >>

Connected ==
  /\ pc = "connect" /\ ~tls.in_use /\ irq
  /\ tls' = [tls EXCEPT !.in_use = TRUE, !.tcp = TRUE]
  /\ pc' = "handshake"
  /\ UNCHANGED << configured, mode, irq, ask, wire, ghosts >>

Unclosed == [tls EXCEPT !.connected = FALSE]
Closed == Free

HandshakeFails ==
  /\ pc = "handshake" /\ irq
  /\ tls' = Closed /\ Return("failed")
  /\ UNCHANGED << configured, mode, irq, ask, wire, executed, told >>

HandshakeDone ==
  /\ pc = "handshake" /\ irq
  /\ tls' = [tls EXCEPT !.connected = TRUE]
  /\ pc' = "send"
  /\ UNCHANGED << configured, mode, irq, ask, wire, ghosts >>

(* What a message array adds to the body.                                   *)
Weight(ms) ==
  LET upto[n \in 0 .. Len(ms)] == IF n = 0 THEN 0 ELSE upto[n - 1] + ms[n].size
  IN upto[Len(ms)]

(* The body as json_build_request(_with_tools) leaves it, cut at its buffer.*)
BodyLength ==
  IF mode = "report" THEN REPORT ELSE Min({REQUEST_BODY - 1, FIXED + Weight(messages)})

Roomy(length) == TRUE
Fits(length) == HEADERS + length < REQ

(* https_post announces the body's length and appends it if there is room.  *)
Request ==
  [announced |-> BodyLength, sent |-> IF Fits(BodyLength) THEN BodyLength ELSE 0]
Whole == wire.sent = wire.announced

SendFails ==
  /\ pc = "send" /\ irq
  /\ tls' = Closed /\ Return("failed")
  /\ UNCHANGED << configured, mode, irq, ask, wire, executed, told >>

(* Results without room for their closing bracket are not JSON.             *)
Legible(m) == m.size < CONTENT - 1
Answers(ms) ==
  UNION {ToSet(ms[i].ids) : i \in {j \in DOMAIN ms : ms[j].role = TOOL /\ Legible(ms[j])}}

Send ==
  /\ pc = "send" /\ irq
  /\ wire' = Request /\ pc' = "receive"
  /\ told' = (IF mode = "agent" /\ Fits(BodyLength) THEN told \cup Answers(messages)
              ELSE told)
  /\ UNCHANGED << configured, mode, irq, ask, tls, executed, outcome >>

(* Nothing comes in 30 s, or what comes has no status.                      *)
NoReply ==
  /\ pc = "receive" /\ irq
  /\ tls' = Closed /\ Return("failed")
  /\ UNCHANGED << configured, mode, irq, ask, wire, executed, told >>

Reply ==
  /\ pc = "receive" /\ irq
  /\ tls' = Closed /\ pc' = "reply"
  /\ UNCHANGED << configured, mode, irq, ask, wire, ghosts >>

-----------------------------------------------------------------------------
(* An error status: its text is the answer.  A crash report takes any reply.*)
ErrorStatus ==
  /\ pc = "reply"
  /\ Return("error")
  /\ UNCHANGED << configured, mode, irq, ask, tls, wire, executed, told >>

(* Status 200 and the end of the turn; or a body cut at 4 KB, which has     *)
(* lost the stop reason behind its content.                                 *)
EndTurn ==
  /\ pc = "reply" /\ Whole
  /\ Return("answer")
  /\ UNCHANGED << configured, mode, irq, ask, tls, wire, executed, told >>

AlwaysRoom == TRUE
HasRoom == Len(messages) < MAX_MESSAGES

Parsed(ids) == SubSeq(ids, 1, Min({Len(ids), MAX_TOOL_CALLS}))

(* The calls the server makes are named by the round and their place in it. *)
Calls(n) == [i \in 1 .. n |-> << round, i >>]

ToolUse ==
  /\ pc = "reply" /\ mode = "agent" /\ Whole
  /\ \E n \in 0 .. MAX_CALLS, size \in TextSizes :
       /\ messages' = IF HasRoom THEN Append(messages, Message(ASSISTANT, Calls(n), size))
                      ELSE messages
       /\ IF n = 0 THEN /\ Return("answer")
                        /\ UNCHANGED << round, calls, done, content >>
          ELSE IF Len(messages') < MAX_MESSAGES
          THEN /\ calls' = Parsed(Calls(n)) /\ done' = 0 /\ content' = NoResults
               /\ pc' = "tools"
               /\ UNCHANGED << round, outcome >>
          ELSE /\ round' = Counted /\ pc' = "round"
               /\ UNCHANGED << calls, done, content, outcome >>
  /\ UNCHANGED << configured, mode, irq, tls, wire, executed, told >>

(* A tool is executed first; then its result is written, and cut where the  *)
(* buffer ends: the kernel's snprintf returns what it has stored.  When     *)
(* less than SAFETY remains, the result is left out and the calls behind it *)
(* are not executed.                                                        *)
NoMore == done = Len(calls)
LeftOut(size, remain) == IF size < remain THEN size ELSE 0
Stored(size, remain) == Min({size, remain - 1})
Execute ==
  /\ pc = "tools" /\ ~NoMore
  /\ LET id == calls[done + 1]
         remain == CONTENT - content.size
     IN /\ executed' = executed \cup {id}
        /\ \/ remain < SAFETY /\ done' = Len(calls) /\ UNCHANGED content
           \/ /\ remain >= SAFETY /\ done' = done + 1
              /\ \E size \in ResultSizes :
                   content' = [ids |-> IF size < remain THEN Append(content.ids, id)
                                       ELSE content.ids,
                               size |-> content.size + Stored(size, remain)]
  /\ UNCHANGED << pc, configured, mode, irq, round, messages, calls, tls, wire, told, outcome >>

Record ==
  /\ pc = "tools" /\ NoMore
  /\ messages' = Append(messages, Message(TOOL, content.ids, content.size))
  /\ calls' = << >> /\ done' = 0 /\ content' = NoResults
  /\ round' = Counted /\ pc' = "round"
  /\ UNCHANGED << configured, mode, irq, tls, wire, ghosts >>

-----------------------------------------------------------------------------
(* Without a key the crash is not reported.                                 *)
Reporting == IF configured THEN "connect" ELSE "key"

(* kernel_panic: the panic command, or a Lua program that is out of memory, *)
(* run from the shell or as a tool.                                         *)
Panic ==
  /\ pc \in {"idle", "tools"} /\ mode = "agent"
  /\ mode' = "report" /\ pc' = Reporting /\ wire' = NoRequest
  /\ UNCHANGED << configured, irq, ask, tls, ghosts >>

(* A CPU exception, at any time, through an interrupt gate.                 *)
Fault ==
  /\ mode = "agent"
  /\ irq' = FALSE
  /\ mode' = "report" /\ pc' = Reporting /\ wire' = NoRequest
  /\ UNCHANGED << configured, ask, tls, ghosts >>

Reboot ==
  /\ pc = "key"
  /\ pc' = "idle" /\ mode' = "agent" /\ irq' = TRUE /\ configured' = ANTHROPIC_API_KEY
  /\ round' = 0 /\ messages' = << >> /\ calls' = << >> /\ done' = 0 /\ content' = NoResults
  /\ tls' = Free /\ wire' = NoRequest
  /\ executed' = {} /\ told' = {} /\ outcome' = "none"

Proceed ==
  \/ LimitReached \/ StartRound
  \/ Busy \/ NoConnection \/ Connected \/ HandshakeFails \/ HandshakeDone
  \/ SendFails \/ Send \/ NoReply \/ Reply
  \/ ErrorStatus \/ EndTurn \/ ToolUse \/ Record

Next == Ask \/ SetUp \/ Config \/ Proceed \/ Execute \/ Panic \/ Fault \/ Reboot

Spec == Init /\ [][Next]_vars /\ WF_vars(Proceed)

-----------------------------------------------------------------------------
Ids == (0 .. MAX_TOOL_ROUNDS - 1) \X (1 .. MAX_CALLS)

(* The message array keeps within its bounds, and so do the results.        *)
TypeOK ==
  /\ pc \in {"idle", "setup", "round", "connect", "handshake", "send", "receive", "reply",
             "tools", "key"}
  /\ mode \in {"agent", "report"} /\ irq \in BOOLEAN /\ configured \in BOOLEAN
  /\ round \in 0 .. MAX_TOOL_ROUNDS
  /\ messages \in Seq([role : {USER, ASSISTANT, TOOL}, ids : Seq(Ids), size : Nat])
  /\ Len(messages) <= MAX_MESSAGES
  /\ calls \in Seq(Ids) /\ Len(calls) <= MAX_TOOL_CALLS /\ done \in 0 .. Len(calls)
  /\ content.ids \in Seq(Ids) /\ content.size \in 0 .. CONTENT - 1
  /\ tls \in [in_use : BOOLEAN, connected : BOOLEAN, tcp : BOOLEAN]
  /\ wire \in [announced : 0 .. REQUEST_BODY - 1, sent : 0 .. REQ - 1]
  /\ executed \subseteq Ids /\ told \subseteq Ids
  /\ outcome \in {"none", "no key", "limit", "failed", "error", "answer"}

(* Whatever request reaches the server whole, each tool call in it is       *)
(* answered by the message behind it, uncut, and each answer has its call   *)
(* before it; except for the calls beyond MAX_TOOL_CALLS and those of a     *)
(* message that took the last place.                                        *)
Answered ==
  mode = "agent" /\ pc = "receive" /\ Whole =>
    \A i \in DOMAIN messages :
      LET m == messages[i] IN
      /\ m.role = ASSISTANT /\ Len(m.ids) <= MAX_TOOL_CALLS /\ i < MAX_MESSAGES =>
           i < Len(messages) /\ messages[i + 1].role = TOOL /\ messages[i + 1].ids = m.ids
      /\ m.role = TOOL =>
           /\ Legible(m)
           /\ messages[i - 1].role = ASSISTANT /\ IsPrefix(m.ids, messages[i - 1].ids)

(* Claude's last word takes everything into account: when an answer is      *)
(* shown, the server had been told of every tool that was executed.         *)
NothingUntold == mode = "agent" /\ outcome = "answer" => executed \subseteq told

(* Between two requests the one TLS connection and its TCP slot are free,   *)
(* however the last one ended; tools and panics may then use the network.   *)
TlsIsFree ==
  irq /\ pc \notin {"handshake", "send", "receive"} => tls = Free

(* Every question comes back, and every crash report that was not caused by *)
(* a CPU exception, if the tools executed do and the set-up dialogue, which *)
(* waits for the keyboard without a time-out, is answered.                  *)
ToolsReturn == []<>(pc # "tools")
DialogueEnds == []<>(pc # "setup")
AskReturns ==
  ToolsReturn /\ DialogueEnds => (pc # "idle" ~> pc \in {"idle", "key"} \/ ~irq)

(* The whole body is sent: "Build the entire HTTP request (headers + body)  *)
(* in one buffer" (net/https.c:39).                                         *)
BodyIsSent == pc = "receive" => Whole

(* The panic screen comes to "Press any key to reboot" (kernel/panic.c:88). *)
PanicEnds == mode = "report" ~> pc = "key"
=============================================================================
