--------------------------- MODULE SpanExecution ---------------------------
(***************************************************************************)
(* What the executors of a CompositeExecutorRegistry require of a span,    *)
(* and what they make of it (operators only).                              *)
(*                                                                         *)
(* A text is a sequence of pieces; hashes are taken to be injective, so a  *)
(* fingerprint is what it is the hash of.  What a command prints and what  *)
(* a file holds depends on the sandbox: they are inputs.  A span is a      *)
(* record of which these operators use kind, name and attrs, its text      *)
(* attributes; "model" stands for the attribute or the executor kind,      *)
(* "prompt" for the prompt or the recorded request JSON.                   *)
(***************************************************************************)
EXTENDS Sequences, SequencesExt

CONSTANTS
    Outside,      \* the paths that lie outside the recorded workspace
    Answers,      \* what a command may print to stdout, or a file hold
    Complaints,   \* what a command may print to stderr
    Fixtures      \* recorded responses: a sequence of [model, prompt, response]

None == <<>>      \* no fingerprint, no text
AnyModel == "any"

WorkKinds == {"shell", "tool", "read", "write", "llm", "retrieval"}

\* The work kinds that have an executor.
Supported == WorkKinds \ {"retrieval"}

\* What stands in for the models.
ModelModes == {"blocked", "fake", "recorded", "command"}

Has(span, attr) == attr \in DOMAIN span.attrs

Text == INSTANCE UnifiedDiff WITH Context <- 3, MaxCells <- 4000000

----------------------------------------------------------------------------
(* Contracts and checks                                                    *)

\* The path attribute, else the name.
Path(span) == IF Has(span, "path") THEN span.attrs["path"] ELSE span.name

ShellContract(span) == Has(span, "command") \/ span.name # None
ReadContract(span)  == Has(span, "path") \/ span.name # None
WriteContract(span) == ReadContract(span) /\ Has(span, "content")
ModelContract(span) == Has(span, "model")

\* resolve maps a path into the sandbox unless it lies outside.
Resolves(path) == path \notin Outside
WorkingDir(span) == Has(span, "cwd") => Resolves(span.attrs["cwd"])

PromptOf(span) == span.attrs["prompt"]
ModelOf(span)  == IF Has(span, "model") THEN span.attrs["model"] ELSE <<"unknown">>

\* Faulty variant: a recorded response serves any prompt.
HasRecordingOfSpan(span, recorded) ==
    /\ Has(span, "prompt")
    /\ recorded.outputs # <<>>

\* The span's own response, when neither its prompt nor its model has changed.
HasRecording(span, recorded) ==
    /\ Has(span, "prompt")
    /\ Has(recorded, "prompt")
    /\ PromptOf(recorded) = PromptOf(span)
    /\ ModelOf(recorded) = ModelOf(span)
    /\ recorded.outputs # <<>>

\* The first fixture for the prompt and, unless it is for any, the model.
Fixture(span) ==
    SelectInSeq(Fixtures, LAMBDA f :
        /\ Has(span, "prompt") /\ f.prompt = PromptOf(span)
        /\ f.model \in {AnyModel, ModelOf(span)})

ModelServes(mode, span, recorded) ==
    /\ ModelContract(span)
    /\ CASE mode = "blocked"  -> FALSE
         [] mode = "recorded" -> Fixture(span) # 0 \/ HasRecording(span, recorded)
         [] OTHER             -> TRUE

\* check, asked by the planner and again before a span executes.
Check(mode, span, recorded) ==
    span.kind \in Supported /\
    CASE span.kind = "shell" -> ShellContract(span) /\ WorkingDir(span)
      [] span.kind = "tool"  -> Has(span, "command") /\ WorkingDir(span)
      [] span.kind = "read"  -> ReadContract(span) /\ Resolves(Path(span))
      [] span.kind = "write" -> WriteContract(span) /\ Resolves(Path(span))
      [] span.kind = "llm"   -> ModelServes(mode, span, recorded)

----------------------------------------------------------------------------
(* Results: a status, the output artifacts (the first is the primary one)  *)
(* and a fingerprint                                                       *)

Result(ok, outputs, fp) ==
    [status |-> IF ok THEN "Completed" ELSE "Failed", outputs |-> outputs, fp |-> fp]

TextPrint(text) == <<"text", text>>

\* failed_result: no output, and the error, a text too, for a fingerprint.
FailedResult(error) == Result(FALSE, <<>>, TextPrint(error))

\* A stream that is not empty becomes an artifact.
Stream(text) == IF text = None THEN <<>> ELSE <<text>>

\* An artifact for each stream that is not empty, else the exit code.
ShellResult(out) ==
    LET streams == Stream(out.stdout) \o Stream(out.stderr)
    IN  Result(out.code = "0",
               IF streams = <<>> THEN <<<<"exit_code", out.code>>>> ELSE streams,
               <<"shell", out.code, out.stdout, out.stderr>>)

\* The output of a tool is its stdout, empty or not.
ToolResult(out) ==
    Result(out.code = "0",
           <<out.stdout>> \o Stream(out.stderr),
           TextPrint(out.stdout))

ReadResult(content) == Result(TRUE, <<content>>, TextPrint(content))

\* The output of a write is its diff, the fingerprint the content.
WriteResult(span, previous) ==
    LET content == span.attrs["content"]
    IN  Result(TRUE, <<<<"diff">> \o Text!Diff(previous, content)>>, TextPrint(content))

ModelResponse(response) == Result(TRUE, <<response>>, TextPrint(response))

\* One response for every span: the fake model is not told any by name.
FakeResult == ModelResponse(<<"fake">>)

\* The fixtures come before the span's own recording.
RecordedResult(span, recorded) ==
    ModelResponse(IF Fixture(span) # 0 THEN Fixtures[Fixture(span)].response
                  ELSE recorded.outputs[1])

\* The response is all of stdout, empty or not; failure_message quotes stderr.
CommandModelResult(out) ==
    IF out.code = "0" THEN ModelResponse(out.stdout)
    ELSE FailedResult(<<"model", out.code>> \o out.stderr)

\* Both streams, whatever the exit code; "1" stands for any but 0, and for the
\* 124 of a command that was stopped.
ProcessOutputs ==
    [code : {"0", "1"}, stdout : Answers \cup {None}, stderr : Complaints \cup {None}]

\* What execute may answer once its check has passed.
Results(mode, span, recorded) ==
    CASE span.kind = "shell" ->
            {ShellResult(out) : out \in ProcessOutputs} \cup {FailedResult(<<"start">>)}
      [] span.kind = "tool" ->
            {ToolResult(out) : out \in ProcessOutputs} \cup {FailedResult(<<"start">>)}
      [] span.kind = "read" ->
            {ReadResult(content) : content \in Answers} \cup {FailedResult(<<"read">>)}
      [] span.kind = "write" ->
            {WriteResult(span, previous) : previous \in Answers} \cup {FailedResult(<<"write">>)}
      [] span.kind = "llm" ->
            CASE mode = "recorded" -> {RecordedResult(span, recorded)}
              [] mode = "fake"     -> {FakeResult}
              [] mode = "command"  ->
                    {CommandModelResult(out) : out \in ProcessOutputs}
                        \cup {FailedResult(<<"start">>)}
=============================================================================
