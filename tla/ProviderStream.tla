---------------------------- MODULE ProviderStream ----------------------------
(***************************************************************************)
(* A model call: the stream of a provider adapter (cognitive/              *)
(* openai_provider.py, ollama_provider.py, anthropic_provider.py), the     *)
(* retries that are allowed before any text was shown (cognitive/retry.py) *)
(* and the correction of a parameter the endpoint turns out not to take.   *)
(*                                                                         *)
(* The server is the environment: it may refuse, stall, send text and tool *)
(* calls, break off, or end.  What it sends is bounded, and its silence is *)
(* bounded by the read timeout.  Time is in seconds.                       *)
(***************************************************************************)
EXTENDS Integers, Sequences, SequencesExt

CONSTANTS
  Adapters,     (* those of {"openai", "ollama", "anthropic"} to look at    *)
  MaxRetries,   (* max_retries_for: the retry budget of a call              *)
  RetryAfters,  (* what servers write in Retry-After, in seconds            *)
  NoHeader,     (* no such header, or one that does not parse               *)
  MaxItems,     (* bound: pieces of text and tool calls of one response     *)
  MaxCalls      (* bound: model calls of a behaviour                        *)

MaxRetryAfter == 60   (* _MAX_RETRY_AFTER_S                                 *)
BaseDelay     == 1    (* _BASE_DELAY_S, rounded up                          *)
MaxDelay      == 30   (* _MAX_DELAY_S                                       *)

VARIABLES
  adapter,   (* which adapter it is                                         *)
  picky,     (* the endpoint refuses the disputed parameter                 *)
  known,     (* the session has learnt that it does                         *)
  phase,     (* where the call is                                           *)
  plain,     (* this request is without the disputed parameter              *)
  attempt,   (* the number of the attempt                                   *)
  waited,    (* seconds spent between attempts                              *)
  parts,     (* text_parts: the pieces of this attempt, by attempt          *)
  frags,     (* the tool calls of this attempt, as sent                     *)
  shown,     (* what the consumer has got                                   *)
  answer,    (* the completion of the last call                             *)
  calls      (* how many calls so far                                       *)

vars == <<adapter, picky, known, phase, plain, attempt, waited, parts, frags,
          shown, answer, calls>>
settled == <<adapter, picky, calls>>

(* A tool call as sent: with arguments that parse, with ones that do not,   *)
(* or without a name.                                                       *)
Sent  == {"good", "garbled", "nameless"}
Stops == {"stop", "length", "tool_calls", "odd", "none"}

NoAnswer == [text |-> <<>>, tools |-> <<>>, stop |-> "none"]

Init ==
  /\ adapter \in Adapters /\ picky \in BOOLEAN /\ known = FALSE
  /\ phase = "idle" /\ plain = FALSE /\ attempt = 0 /\ waited = 0
  /\ parts = <<>> /\ frags = <<>> /\ shown = <<>> /\ answer = NoAnswer /\ calls = 0

Under == phase \in {"request", "reading"}
emitted == parts # <<>>

(* Per-attempt state is fresh in every request.                             *)
FreshAttempt == phase' = "request" /\ parts' = <<>> /\ frags' = <<>>

(* stream() is called: the parameter is left out where the session knows.   *)
Begin ==
  /\ ~Under /\ calls < MaxCalls
  /\ calls' = calls + 1
  /\ plain' = known
  /\ attempt' = 0 /\ waited' = 0 /\ shown' = <<>> /\ answer' = NoAnswer
  /\ FreshAttempt
  /\ UNCHANGED <<adapter, picky, known>>

Raise == phase' = "failed" /\ UNCHANGED <<plain, attempt, waited, parts, frags, shown, answer, known>>

-----------------------------------------------------------------------------
(* The retry policy.                                                        *)

(* parse_retry_after: within 0 and the longest wait, whatever it says.      *)
ParseRetryAfter(header) == Max({0, Min({header, MaxRetryAfter})})

(* backoff_delay: half of a window that doubles is fixed, the rest random.  *)
Backoff(n) ==
  LET doubled[i \in 0..n] == IF i = 0 THEN BaseDelay ELSE 2 * doubled[i - 1]
      window == Min({doubled[n], MaxDelay})
  IN (window \div 2)..window

Waits(header) == IF header = NoHeader THEN Backoff(attempt) ELSE {ParseRetryAfter(header)}

(* A budget that is never spent.                                            *)
MayRetryForever == ~emitted /\ adapter # "anthropic"
(* A budget spent whatever the consumer has seen.                           *)
MayRetryAnyway == attempt < MaxRetries /\ adapter # "anthropic"
(* Within the budget, and never once text was shown.  The Anthropic SDK     *)
(* retries by itself, before it lets the adapter see anything.              *)
MayRetry == ~emitted /\ attempt < MaxRetries /\ adapter # "anthropic"

Retry(header) ==
  /\ MayRetry
  /\ \E w \in Waits(header) : waited' = waited + w
  /\ attempt' = attempt + 1
  /\ FreshAttempt
  /\ UNCHANGED <<plain, shown, answer, known>>

(* Something worth another attempt: if it may not have one, it is raised.   *)
RetryOrRaise(header) == Retry(header) \/ (~MayRetry /\ Raise)

(* 429 and the transient 5xx, with what the server says about coming back.  *)
Busy(header) == phase = "request" /\ RetryOrRaise(header) /\ UNCHANGED settled

(* ConnectError and ConnectTimeout, or the peer breaks the protocol, before *)
(* or after the first bytes.                                                *)
Breaks == Under /\ RetryOrRaise(NoHeader) /\ UNCHANGED settled

(* Any other status; a read that times out or fails; a line that does not   *)
(* parse; an error Ollama reports in the stream.                            *)
Fails == Under /\ Raise /\ UNCHANGED settled

-----------------------------------------------------------------------------
(* The disputed parameter: OpenAI's name for the output cap, Anthropic's    *)
(* sampling parameters.                                                     *)

Disputes == phase = "request" /\ picky /\ ~plain /\ adapter # "ollama"

(* The rejection is understood and the request sent once more without it.   *)
(* The output cap's name costs no retry; the sampling parameters cost the   *)
(* one second attempt there is, and only where nothing was shown.           *)
Reject ==
  /\ Disputes
  /\ known' = TRUE /\ plain' = TRUE
  /\ attempt' = IF adapter = "anthropic" THEN attempt + 1 ELSE attempt
  /\ FreshAttempt
  /\ UNCHANGED <<waited, shown, answer, settled>>

-----------------------------------------------------------------------------
(* The response.                                                            *)

Accepted == phase = "reading" \/ (phase = "request" /\ ~Disputes)

Deliver ==
  /\ Accepted /\ Len(parts) + Len(frags) < MaxItems
  /\ phase' = "reading"
  /\ parts' = Append(parts, attempt) /\ shown' = Append(shown, attempt)
  /\ UNCHANGED <<plain, attempt, waited, frags, answer, known, settled>>

SendCall(c) ==
  /\ Accepted /\ Len(parts) + Len(frags) < MaxItems
  /\ (c # "good" => adapter # "anthropic")
  /\ phase' = "reading"
  /\ frags' = Append(frags, c)
  /\ UNCHANGED <<plain, attempt, waited, parts, shown, answer, known, settled>>

(* OpenAI's fragments without a name are no calls; Ollama's are.  Arguments *)
(* that do not parse are carried as they came.                              *)
Assemble ==
  FlattenSeq([i \in DOMAIN frags |->
    IF adapter = "openai" /\ frags[i] = "nameless" THEN <<>> ELSE <<frags[i]>>])

(* normalize_stop_reason: a turn that made calls did not just stop, unless  *)
(* the adapter takes the server's word for it.                              *)
StopOf(raw, tools) ==
  LET mapped == CASE raw = "stop"       -> "end_turn"
                  [] raw = "length"     -> "max_tokens"
                  [] raw = "tool_calls" ->
                       IF adapter = "ollama" THEN "other" ELSE "tool_use"
                  [] raw = "odd"        -> "other"
                  [] raw = "none"       -> "none"
  IN IF adapter # "anthropic" /\ tools # <<>> /\ mapped \in {"end_turn", "none"}
     THEN "tool_use" ELSE mapped

(* The response ends, with its marker or without: the last delta carries    *)
(* the completion of this attempt.                                          *)
Finish(raw) ==
  /\ Accepted
  /\ phase' = "done"
  /\ answer' = [text |-> parts, tools |-> Assemble, stop |-> StopOf(raw, Assemble)]
  /\ UNCHANGED <<plain, attempt, waited, parts, frags, shown, known, settled>>

(* The consumer closes the generator, which releases the response.          *)
Close ==
  /\ phase = "reading"
  /\ phase' = "closed"
  /\ UNCHANGED <<plain, attempt, waited, parts, frags, shown, answer, known, settled>>

Progress ==
  \/ \E h \in RetryAfters \cup {NoHeader} : Busy(h)
  \/ Breaks \/ Fails \/ Reject \/ Deliver
  \/ \E c \in Sent : SendCall(c)
  \/ \E raw \in Stops : Finish(raw)

Next == Begin \/ Progress \/ Close

Spec == Init /\ [][Next]_vars /\ WF_vars(Progress)

-----------------------------------------------------------------------------
TypeOK ==
  /\ adapter \in Adapters /\ {picky, known, plain} \subseteq BOOLEAN
  /\ phase \in {"idle", "request", "reading", "done", "failed", "closed"}
  /\ attempt \in 0..Max({MaxRetries, 1}) /\ calls \in 0..MaxCalls /\ waited \in Int
  /\ \A s \in {parts, shown, answer.text} : s \in Seq(0..Max({MaxRetries, 1}))
  /\ \A s \in {frags, answer.tools} : s \in Seq(Sent)
  /\ answer.stop \in {"end_turn", "max_tokens", "tool_use", "other", "none"}

(* "Never retry after a delta has been yielded. The consumer has already    *)
(* seen that text; a second attempt would duplicate it in the transcript"   *)
(* (retry.py): whatever fails, is retried or is corrected on the way, every *)
(* call ends, what was shown is never shown again, and a completion has the *)
(* text that was shown and no other.                                        *)
Contract == INSTANCE CallContract WITH
  Piece <- 0..Max({MaxRetries, 1}),
  open  <- Under,
  told  <- shown,
  text  <- answer.text
KeepsCallContract == Contract!Spec

(* "An interactive CLI must not silently sit on" an absurd Retry-After      *)
(* (retry.py): between its attempts a call never waits longer than the cap  *)
(* for each of its retries, nor a negative time.                            *)
WaitIsBounded == waited \in 0..(attempt * MaxRetryAfter)
===============================================================================
