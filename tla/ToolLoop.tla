------------------------------- MODULE ToolLoop -------------------------------
(***************************************************************************)
(* One AI completion with tools: the bounded loop that asks the provider   *)
(* and runs the tool calls of its answer one by one, the governed resolver *)
(* that decides about each call and records it, and the usage log written  *)
(* when the loop is over.  The deadline of the loop may pass at any point; *)
(* any write of the audit may fail.                                        *)
(***************************************************************************)
EXTENDS Naturals

CONSTANTS
    ToolNames,      \* names the model may call, known or not
    Policy,         \* the PolicyInput of each name, a snapshot taken for the run
    LoopSteps, LoopToolCalls, CallsPerStep,     \* ai.Limits
    LongestRound    \* most calls the modelled provider puts in one answer

ASSUME ToolLoopAssumption ==
    /\ {LoopSteps, LoopToolCalls, CallsPerStep, LongestRound} \subseteq Nat \ {0}
    /\ ToolNames # {}
    /\ Policy \in [ToolNames -> [global : BOOLEAN, known : BOOLEAN, org : BOOLEAN, feature : BOOLEAN,
                                 risk : {"read", "write", "other"}, write : BOOLEAN, confirm : BOOLEAN]]

VARIABLES
    loop,       \* RunToolLoop: position, provider answers so far, tool calls handled, calls left in the round
    expired,    \* the context of the loop is past its deadline
    rows,       \* ai_tool_calls of the run, by status
    usage,      \* ai_usage_logs of the run, by success
    ledger      \* auxiliary: provider calls made, calls attempted, tools run, an audit write lost

toolVars == <<loop, expired, rows, usage, ledger>>

ToolTypeOK ==
    /\ loop \in [pc : {"off", "ask", "answer", "round", "requested", "ran", "aborted", "log", "done"},
                 step : 0 .. LoopSteps + 1, calls : 0 .. LoopToolCalls, size : 0 .. LongestRound,
                 left : 0 .. LongestRound, tool : ToolNames, answers : 0 .. LoopSteps + 1,
                 failed : BOOLEAN, pending : BOOLEAN]
    /\ expired \in BOOLEAN
    /\ rows \in [requested : Nat, executed : Nat, failed : Nat, denied : Nat]
    /\ usage \in [ok : Nat, failed : Nat]
    /\ ledger \in [provider : Nat, attempted : Nat, ran : Nat, lost : BOOLEAN, keyless : BOOLEAN]

\* Authorize: deny by default, in a fixed order; a write tool may only propose.
Authorize(p) ==
    /\ p.global /\ p.known /\ p.org /\ p.feature
    /\ p.risk = "read" \/ (p.risk = "write" /\ p.write /\ p.confirm)
\* Definitions, governedTools: without an available tool there is no loop.
Definitions == {t \in ToolNames : Authorize(Policy[t])}

NewLoop(pc) ==
    /\ loop = [pc |-> pc, step |-> 0, calls |-> 0, size |-> 0, left |-> 0, tool |-> CHOOSE t \in ToolNames : TRUE,
               answers |-> 0, failed |-> FALSE, pending |-> FALSE]
    /\ expired = FALSE
    /\ rows = [requested |-> 0, executed |-> 0, failed |-> 0, denied |-> 0]
    /\ usage = [ok |-> 0, failed |-> 0]
    /\ ledger = [provider |-> 0, attempted |-> 0, ran |-> 0, lost |-> FALSE, keyless |-> FALSE]
ToolInit == NewLoop(IF Definitions = {} THEN "off" ELSE "ask")
ToolEnded == NewLoop("done")

-------------------------------------------------------------------------------
(* completeAI and RunToolLoop *)

\* completeAI without tools, or without a key: one usage row at most.
CompletePlain ==
    /\ loop.pc = "off"
    /\ \E tried, ok \in BOOLEAN :
         /\ ok => tried
         /\ ledger' = [ledger EXCEPT !.provider = IF tried THEN 1 ELSE 0, !.keyless = ~tried]
         /\ usage' = IF ok THEN [usage EXCEPT !.ok = 1] ELSE [usage EXCEPT !.failed = 1]
    /\ loop' = [loop EXCEPT !.pc = "done"]
    /\ UNCHANGED <<expired, rows>>

\* call: past the deadline the provider is not asked any more.
Ask ==
    /\ loop.pc = "ask" /\ ~expired
    /\ loop' = [loop EXCEPT !.pc = "answer"]
    /\ ledger' = [ledger EXCEPT !.provider = @ + 1]
    /\ UNCHANGED <<expired, rows, usage>>
LoopFails ==
    /\ loop.pc \in {"ask", "round"} /\ expired
    /\ loop' = [loop EXCEPT !.pc = "log", !.failed = TRUE]
    /\ UNCHANGED <<expired, rows, usage, ledger>>
ProviderFails ==
    /\ loop.pc = "answer"
    /\ loop' = [loop EXCEPT !.pc = "log", !.failed = TRUE]
    /\ UNCHANGED <<expired, rows, usage, ledger>>
\* The answer: text ends the loop, a round over a limit is refused as a whole, and
\* the request after the last step may not ask for tools again.
OverLimit_PerRound(n) == n > CallsPerStep \/ loop.step = LoopSteps
OverLimit(n) == n > CallsPerStep \/ loop.calls + n > LoopToolCalls \/ loop.step = LoopSteps
ProviderAnswers(n) ==
    /\ loop.pc = "answer"
    /\ loop' = [loop EXCEPT !.answers = @ + 1, !.size = n, !.left = n,
                    !.pc = IF n = 0 THEN "log" ELSE IF OverLimit(n) THEN "aborted" ELSE "round"]
    /\ ledger' = [ledger EXCEPT !.attempted = @ + n]
    /\ UNCHANGED <<expired, rows, usage>>
RoundOver ==
    /\ loop.pc = "round" /\ loop.left = 0 /\ ~expired
    /\ loop' = [loop EXCEPT !.pc = "ask", !.calls = @ + loop.size, !.step = @ + 1, !.size = 0]
    /\ UNCHANGED <<expired, rows, usage, ledger>>

-------------------------------------------------------------------------------
(* runOne and the resolver *)

\* recordDenied: one row, or a failure that is only logged.  A write under the
\* context of the loop always fails once the deadline has passed.
recordDenied(mayWrite) ==
    \/ mayWrite /\ rows' = [rows EXCEPT !.denied = @ + 1] /\ UNCHANGED ledger
    \/ ledger' = [ledger EXCEPT !.lost = TRUE] /\ UNCHANGED rows
CallDone == loop' = [loop EXCEPT !.pc = "round", !.left = @ - 1]
\* deniedTool, and Reject for arguments over the limit of a tool that is available.
Deny(t) ==
    /\ loop.pc = "round" /\ loop.left > 0 /\ ~expired /\ t \notin Definitions
    /\ recordDenied(~expired) /\ CallDone
    /\ UNCHANGED <<expired, usage>>
Reject(t) ==
    /\ loop.pc = "round" /\ loop.left > 0 /\ ~expired /\ t \in Definitions
    /\ recordDenied(~expired) /\ CallDone
    /\ UNCHANGED <<expired, usage>>

\* governedTool.Execute: "requested" is written first; if it cannot be, nothing runs.
RequestRow(t) ==
    /\ loop.pc = "round" /\ loop.left > 0 /\ ~expired /\ t \in Definitions
    /\ rows' = [rows EXCEPT !.requested = @ + 1]
    /\ loop' = [loop EXCEPT !.pc = "requested", !.tool = t]
    /\ UNCHANGED <<expired, usage, ledger>>
RequestFails(t) ==
    /\ loop.pc = "round" /\ loop.left > 0 /\ t \in Definitions
    /\ rows' = rows \/ (~expired /\ rows' = [rows EXCEPT !.denied = @ + 1])
    /\ ledger' = [ledger EXCEPT !.lost = @ \/ rows' = rows]
    /\ CallDone
    /\ UNCHANGED <<expired, usage>>
\* run builds and runs the tool; propose records a proposal instead.  Either may
\* fail, panic or time out.
RunTool ==
    /\ loop.pc = "requested" /\ Policy[loop.tool].risk = "read"
    /\ loop' = [loop EXCEPT !.pc = "ran"]
    /\ ledger' = [ledger EXCEPT !.ran = @ + 1]
    /\ UNCHANGED <<expired, rows, usage>>
Propose ==
    /\ loop.pc = "requested" /\ Policy[loop.tool].risk = "write"
    /\ loop' \in {[loop EXCEPT !.pc = "ran", !.pending = x] : x \in {TRUE, loop.pending}}
    /\ ledger' = [ledger EXCEPT !.ran = @ + 1]
    /\ UNCHANGED <<expired, rows, usage>>
\* finish: under a context of its own, tried twice; the tool is never run again.
Finish(status) ==
    /\ loop.pc = "ran"
    /\ rows' = [rows EXCEPT !.requested = @ - 1, ![status] = @ + 1]
    /\ CallDone
    /\ UNCHANGED <<expired, usage, ledger>>
FinishFails ==
    /\ loop.pc = "ran"
    /\ CallDone
    /\ UNCHANGED <<expired, rows, usage, ledger>>

-------------------------------------------------------------------------------
(* completeWithTools after the loop *)

\* RecordAborted: every call of the refused round, under the caller's context.
RecordAborted ==
    /\ loop.pc = "aborted"
    /\ recordDenied(TRUE)
    /\ loop' = [loop EXCEPT !.left = @ - 1, !.pc = IF loop.left = 1 THEN "log" ELSE "aborted"]
    /\ UNCHANGED <<expired, usage>>
\* recordAIUsage: one row per answer, and one for the error that ended the loop.
UsageRows == [ok |-> loop.answers, failed |-> IF loop.failed THEN 1 ELSE 0]
RecordUsage ==
    /\ loop.pc = "log"
    /\ usage' = UsageRows
    /\ loop' = [loop EXCEPT !.pc = "done"]
    /\ UNCHANGED <<expired, rows, ledger>>
Expire ==
    /\ ~expired /\ loop.pc \in {"ask", "answer", "round", "requested", "ran"}
    /\ expired' = TRUE
    /\ UNCHANGED <<loop, rows, usage, ledger>>

ToolStep ==
    \/ CompletePlain \/ Ask \/ LoopFails \/ ProviderFails \/ RoundOver \/ RunTool \/ Propose
    \/ FinishFails \/ RecordAborted \/ RecordUsage
    \/ \E n \in 0 .. LongestRound : ProviderAnswers(n)
    \/ \E t \in ToolNames : Deny(t) \/ Reject(t) \/ RequestRow(t) \/ RequestFails(t)
    \/ \E s \in {"executed", "failed"} : Finish(s)
ToolNext == ToolStep \/ Expire
ToolFairness == WF_toolVars(ToolStep)
ToolSpec == ToolInit /\ [][ToolNext]_toolVars /\ ToolFairness

-------------------------------------------------------------------------------
(* Properties *)

Recorded == rows.requested + rows.executed + rows.failed
\* No tool runs without a row that says so, and none runs twice on one row: the
\* request is written before the tool is built and only the write is tried again.
RanWasRequested == ledger.ran <= Recorded

\* However the model asks, a run handles no more tool calls and makes no more
\* provider calls than its limits allow.
LoopWithinLimits == ledger.ran <= LoopToolCalls /\ ledger.provider <= LoopSteps + 1

\* When the run is over every call the model attempted is on record, executed,
\* failed, unfinished or denied, unless a write of the audit failed or the deadline
\* cut a round short.
AttemptsRecorded ==
    loop.pc = "done" /\ ~ledger.lost /\ ~expired => Recorded + rows.denied = ledger.attempted

\* One usage row per provider call.  A loop cut by its deadline between two calls
\* has a row for the error as well, without a call behind it.
UsagePerCall ==
    loop.pc = "done" /\ ~ledger.keyless =>
        /\ usage.ok + usage.failed >= ledger.provider
        /\ ~expired => usage.ok + usage.failed = ledger.provider

\* What ran was requested and recorded, within the limits of the loop, and every provider
\* call has its usage row.
LoopAccounted == ToolTypeOK /\ RanWasRequested /\ LoopWithinLimits /\ AttemptsRecorded /\ UsagePerCall
===============================================================================
