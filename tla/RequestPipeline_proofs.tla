------------------------ MODULE RequestPipeline_proofs ------------------------
(***************************************************************************)
(* For any number of before actions, hooks and controller calls, and       *)
(* whatever the application throws: every server error reaches the         *)
(* server:error hooks exactly once, every failure is answered as the code  *)
(* says, and an action sees only params that validate, unless a before     *)
(* action caught the failure.                                              *)
(*                                                                         *)
(* The properties speak of the end of the request; the invariant says what *)
(* is known of each error on its way there.  An error in flight is the     *)
(* last one raised; all the others are settled, which is what the end asks *)
(* of every one of them; and what is known of the one in flight depends on *)
(* who holds it.                                                           *)
(***************************************************************************)
EXTENDS RequestPipeline, TLAPS

Running == {"inbound", "dispatch", "before", "validate", "action"}
Failing == {"caught", "routerHooks", "unwind", "boundary", "boundaryHooks", "koa"}
Hooking == {"routerHooks", "boundaryHooks"}

\* Handed to the hooks as often as it should be, or exempt.
Settled(e) == ~e.late /\ ~e.replaced => e.escalated = IF ServerError(e) THEN 1 ELSE 0
Fresh(e) == ~e.late /\ ~e.replaced /\ e.escalated = 0

\* What may come out of the router or of the middleware: a failing hook's
\* error that the router marked, or an error that nobody has answered yet.
ComesOut(e) ==
    /\ Fresh(e)
    /\ \/ e.rethrown /\ e.where = "hook" /\ ~CrashesKoa(e.kind)
       \/ /\ ~e.rethrown /\ e.where \in {"middleware", "render"}
          /\ e.parser => e.kind \in {"parser4xx", "decompression"}

LastRaised == raised[Len(raised)]

InFlightIsLast ==
    /\ pc \in Failing => raised # <<>> /\ err = Len(raised)
    /\ pc \notin Failing => err = 0

OthersSettled == \A i \in 1..Len(raised) : i # err => Settled(raised[i])

NothingFailed ==
    pc \in Running => \A i \in 1..Len(raised) : raised[i].replaced /\ raised[i].escalated = 0

KnownInFlight ==
    /\ pc = "caught" => Fresh(Caught) /\ Caught.where = "controller"
    /\ pc \in Hooking => Caught.escalated = 1 /\ Settled(Caught) /\ ~Caught.replaced
    /\ pc \in {"unwind", "boundary"} => ComesOut(Caught)
    /\ pc = "koa" =>
           /\ Settled(Caught) /\ Caught.escalated = 0 /\ ~Caught.replaced
           /\ CrashesKoa(Caught.kind) => Caught.where = "boundary"

ServerErrorAnswered ==
    ~headerSent /\ raised # <<>> /\ LastRaised.escalated = 1 =>
        body = "hook" \/ (status = 500 /\ body = "empty")

DataIsDeliberate ==
    /\ pc \in Running \cup {"caught"} => body # "data"
    /\ pc \in {"outbound", "done"} /\ ~headerSent /\ raised # <<>> /\ body = "data" =>
           Deliberate(LastRaised.kind)

FailedResponds ==
    ~headerSent =>
        /\ pc \in {"outbound", "done", "koa"} \cup Hooking
           /\ (\E i \in 1..Len(raised) : ~raised[i].replaced) => respond
        /\ pc \in {"unwind", "boundary"} /\ Caught.rethrown => respond

SawFailure == \E i \in 1..Len(raised) : raised[i].kind = "invalidParams" /\ raised[i].replaced
ParamsSeen ==
    /\ pc \in {"inbound", "dispatch"} => ~validated
    /\ pc = "action" => validated
    /\ pc \in {"before", "validate", "action"} /\ validated /\ invalid # "none" => SawFailure

IInv ==
    /\ PipelineTypeOK
    /\ InFlightIsLast /\ OthersSettled /\ NothingFailed /\ KnownInFlight
    /\ ServerErrorAnswered /\ DataIsDeliberate /\ FailedResponds /\ ParamsSeen

(***************************************************************************)
(* Errors, and the sequence of those raised                                *)
(***************************************************************************)

\* What a new error is.
LEMMA NewErrorFacts ==
  ASSUME NEW k \in Kinds, NEW w \in {"middleware", "controller", "render", "boundary", "hook"}
  PROVE  /\ NewError(k, w) \in ErrorRecord
         /\ Fresh(NewError(k, w))
         /\ NewError(k, w).kind = k /\ NewError(k, w).where = w
         /\ ~NewError(k, w).parser /\ ~NewError(k, w).rethrown
  BY DEF NewError, ErrorRecord, Fresh

\* A new error with one mark: the body parser's, that of an error its reader
\* caught, or that of a failing hook's, which the boundary leaves out.
LEMMA MarkedErrorFacts ==
  ASSUME NEW k \in Kinds, NEW w \in {"middleware", "controller", "hook"}
  PROVE  LET parsers == [NewError(k, w) EXCEPT !.parser = TRUE]
             caught == [NewError(k, w) EXCEPT !.replaced = TRUE]
             marked == [NewError(k, w) EXCEPT !.rethrown = TRUE]
             unmarked == [NewError(k, w) EXCEPT !.rethrown = FALSE]
         IN /\ parsers \in ErrorRecord /\ Fresh(parsers)
            /\ parsers.kind = k /\ parsers.where = w /\ ~parsers.rethrown
            /\ caught \in ErrorRecord /\ caught.replaced
            /\ caught.escalated = 0 /\ caught.kind = k
            /\ marked \in ErrorRecord /\ Fresh(marked)
            /\ marked.kind = k /\ marked.where = w /\ marked.rethrown
            /\ unmarked \in ErrorRecord /\ Fresh(unmarked)
            /\ unmarked.kind = k /\ unmarked.where = w
<1>1. NewError(k, w) = [kind |-> k, where |-> w, parser |-> FALSE, rethrown |-> FALSE,
                        late |-> FALSE, replaced |-> FALSE, escalated |-> 0]
  BY DEF NewError
<1> DEFINE parsers == [NewError(k, w) EXCEPT !.parser = TRUE]
           caught == [NewError(k, w) EXCEPT !.replaced = TRUE]
           marked == [NewError(k, w) EXCEPT !.rethrown = TRUE]
           unmarked == [NewError(k, w) EXCEPT !.rethrown = FALSE]
<1>2. parsers \in ErrorRecord /\ caught \in ErrorRecord /\ marked \in ErrorRecord
      /\ unmarked \in ErrorRecord
  <2>1. NewError(k, w) \in ErrorRecord
    BY NewErrorFacts
  <2>2. ASSUME NEW e \in ErrorRecord
        PROVE  /\ [e EXCEPT !.parser = TRUE] \in ErrorRecord
               /\ [e EXCEPT !.replaced = TRUE] \in ErrorRecord
               /\ [e EXCEPT !.rethrown = TRUE] \in ErrorRecord
               /\ [e EXCEPT !.rethrown = FALSE] \in ErrorRecord
    BY DEF ErrorRecord
  <2> QED
    BY <2>1, <2>2
<1>3. Fresh(parsers) /\ parsers.kind = k /\ parsers.where = w /\ ~parsers.rethrown
  BY <1>1 DEF Fresh
<1>4. caught.replaced /\ caught.escalated = 0 /\ caught.kind = k
  BY <1>1
<1>5. Fresh(marked) /\ marked.kind = k /\ marked.where = w /\ marked.rethrown
  BY <1>1 DEF Fresh
<1>6. Fresh(unmarked) /\ unmarked.kind = k /\ unmarked.where = w
  BY <1>1 DEF Fresh
<1> QED
  BY <1>2, <1>3, <1>4, <1>5, <1>6

\* Raising an error leaves the earlier ones as they were.
LEMMA AppendFacts ==
  ASSUME NEW S, NEW s \in Seq(S), NEW e \in S
  PROVE  /\ Append(s, e) \in Seq(S) /\ Append(s, e) # <<>>
         /\ Len(Append(s, e)) = Len(s) + 1
         /\ Append(s, e)[Len(s) + 1] = e
         /\ \A i \in 1..Len(s) : Append(s, e)[i] = s[i]
         /\ Len(s) \in Nat
  OBVIOUS

\* Changing one error leaves the others as they were.
LEMMA UpdateFacts ==
  ASSUME NEW S, NEW s \in Seq(S), NEW i \in 1..Len(s), NEW e \in S
  PROVE  /\ [s EXCEPT ![i] = e] \in Seq(S) /\ [s EXCEPT ![i] = e] # <<>>
         /\ Len([s EXCEPT ![i] = e]) = Len(s)
         /\ [s EXCEPT ![i] = e][i] = e
         /\ \A j \in 1..Len(s) : j # i => [s EXCEPT ![i] = e][j] = s[j]
  OBVIOUS

\* The error in flight is one of those raised.
LEMMA CaughtFacts ==
  ASSUME IInv, pc \in Failing
  PROVE  /\ raised \in Seq(ErrorRecord) /\ raised # <<>>
         /\ err = Len(raised) /\ err \in 1..Len(raised)
         /\ Caught \in ErrorRecord /\ LastRaised = Caught
         /\ OthersSettled
  BY DEF IInv, PipelineTypeOK, InFlightIsLast, Caught, LastRaised

\* Escalating the error in flight counts it once, and changes nothing else.
LEMMA EscalateFacts ==
  ASSUME IInv, pc \in Failing, Fresh(Caught), ServerError(Caught), Escalate, err' = err
  PROVE  /\ raised' \in Seq(ErrorRecord) /\ raised' # <<>> /\ Len(raised') = Len(raised)
         /\ Caught'.escalated = 1 /\ Settled(Caught)' /\ Caught'.kind = Caught.kind
         /\ ~Caught'.replaced /\ LastRaised' = Caught' /\ OthersSettled'
         /\ \A j \in 1..Len(raised) : j # err => raised'[j] = raised[j]
<1> DEFINE e == [Caught EXCEPT !.escalated = @ + 1]
<1>1. raised \in Seq(ErrorRecord) /\ err \in 1..Len(raised) /\ Caught \in ErrorRecord
      /\ err = Len(raised) /\ OthersSettled
  BY CaughtFacts
<1>2. /\ e \in ErrorRecord /\ e.escalated = 1 /\ e.kind = Caught.kind
      /\ ~e.replaced /\ ~e.late /\ e.where = Caught.where /\ e.parser = Caught.parser
  BY <1>1 DEF ErrorRecord, Fresh
<1>3. raised' = [raised EXCEPT ![err] = e]
  BY DEF Escalate, Caught
<1>4. ServerError(e) = ServerError(Caught)
  BY <1>2 DEF ServerError
<1>5. Settled(e)
  BY <1>2, <1>4 DEF Settled
<1> HIDE DEF e
<1>6. /\ raised' \in Seq(ErrorRecord) /\ raised' # <<>> /\ Len(raised') = Len(raised)
      /\ raised'[err] = e
      /\ \A j \in 1..Len(raised) : j # err => raised'[j] = raised[j]
  BY <1>1, <1>2, <1>3, UpdateFacts
<1>7. Caught' = e /\ LastRaised' = e
  BY <1>1, <1>6 DEF Caught, LastRaised
<1>8. OthersSettled'
  BY <1>1, <1>6 DEF OthersSettled, Settled
<1>9. Settled(Caught)'
  BY <1>5, <1>7 DEF Settled, ServerError
<1> QED
  BY <1>2, <1>6, <1>7, <1>8, <1>9

(***************************************************************************)
(* The ways that a step disposes of errors                                 *)
(***************************************************************************)

\* What the steps change besides the type of the other variables.
Errors ==
    /\ raised \in Seq(ErrorRecord) /\ err \in 0..Len(raised)
    /\ InFlightIsLast /\ OthersSettled /\ NothingFailed /\ KnownInFlight
    /\ ServerErrorAnswered /\ DataIsDeliberate /\ FailedResponds /\ ParamsSeen

\* An error is thrown to whoever handles it next: handle()'s catch, the way
\* out, or Koa.
LEMMA Thrown ==
  ASSUME IInv, NEW e \in ErrorRecord, InFlight(e), pc \notin Failing \/ Settled(Caught),
         \/ pc' = "caught" /\ Fresh(e) /\ e.where = "controller" /\ body' # "data"
         \/ /\ pc' \in {"unwind", "boundary"} /\ ComesOut(e)
            /\ ~headerSent' /\ e.rethrown => respond'
         \/ /\ pc' = "koa" /\ Settled(e) /\ Fresh(e)
            /\ CrashesKoa(e.kind) => e.where = "boundary"
            /\ headerSent' \/ respond'
  PROVE  Errors'
<1>1. /\ raised \in Seq(ErrorRecord) /\ OthersSettled
      /\ pc \notin Failing => err = 0
  BY DEF IInv, PipelineTypeOK, InFlightIsLast
<1>2. raised' = Append(raised, e) /\ err' = Len(raised) + 1
  BY DEF InFlight
<1>3. /\ raised' \in Seq(ErrorRecord) /\ raised' # <<>> /\ Len(raised') = Len(raised) + 1
      /\ raised'[Len(raised) + 1] = e /\ Len(raised) \in Nat
      /\ \A i \in 1..Len(raised) : raised'[i] = raised[i]
  BY <1>1, <1>2, AppendFacts
<1>4. Caught' = e /\ LastRaised' = e
  BY <1>2, <1>3 DEF Caught, LastRaised
<1>5. pc' \in Failing /\ pc' \notin Running /\ pc' \notin Hooking /\ e.escalated = 0
  BY DEF Failing, Running, Hooking, ComesOut, Fresh
<1>6. \A i \in 1..Len(raised) : Settled(raised[i])
  BY <1>1, <1>3 DEF OthersSettled, Caught
<1>7. OthersSettled'
  BY <1>2, <1>3, <1>6 DEF OthersSettled, Settled
<1>8. InFlightIsLast' /\ err' \in 0..Len(raised')
  BY <1>2, <1>3, <1>5 DEF InFlightIsLast
<1>9. NothingFailed' /\ ParamsSeen'
  BY <1>5 DEF NothingFailed, ParamsSeen, Running
<1>10. KnownInFlight'
  BY <1>4, <1>5 DEF KnownInFlight, Hooking, ComesOut, Settled, Fresh, ServerError, CrashesKoa
<1>11. ServerErrorAnswered' /\ DataIsDeliberate'
  BY <1>4, <1>5 DEF ServerErrorAnswered, DataIsDeliberate, Running
<1>12. FailedResponds'
  BY <1>4, <1>5 DEF FailedResponds, Hooking
<1> QED
  BY <1>3, <1>7, <1>8, <1>9, <1>10, <1>11, <1>12 DEF Errors

\* While nothing failed, or only what its reader caught, the request goes on.
LEMMA GoesOn ==
  ASSUME IInv, pc \in Running, pc' \in Running \cup {"outbound"}, err' = err,
         raised' \in Seq(ErrorRecord),
         \A i \in 1..Len(raised') : raised'[i].replaced /\ raised'[i].escalated = 0,
         body' \in {body, "empty", "action"}, ParamsSeen'
  PROVE  Errors'
<1>1. pc \notin Failing /\ err = 0 /\ err' = 0 /\ body # "data"
  BY DEF IInv, InFlightIsLast, DataIsDeliberate, Running, Failing
<1>2. pc' \notin Failing /\ pc' \notin Hooking
  BY DEF Running, Failing, Hooking
<1>3. OthersSettled' /\ NothingFailed'
  BY DEF OthersSettled, Settled, NothingFailed
<1>4. InFlightIsLast' /\ KnownInFlight' /\ err' \in 0..Len(raised')
  BY <1>1, <1>2 DEF InFlightIsLast, KnownInFlight, Failing
<1>5. raised' # <<>> => LastRaised'.escalated = 0
  BY DEF LastRaised
<1>6. ServerErrorAnswered' /\ DataIsDeliberate'
  BY <1>1, <1>5 DEF ServerErrorAnswered, DataIsDeliberate
<1>7. FailedResponds'
  BY <1>2 DEF FailedResponds, Failing
<1> QED
  BY <1>3, <1>4, <1>6, <1>7 DEF Errors

\* The error in flight is answered.
LEMMA Answered ==
  ASSUME IInv, pc \in Failing, pc' \in {"outbound", "done"}, err' = 0, raised' = raised,
         Settled(Caught), headerSent' \/ respond', 
         ~headerSent' /\ Caught.escalated = 1 => body' = "hook" \/ (status' = 500 /\ body' = "empty"),
         ~headerSent' /\ body' = "data" => Deliberate(Caught.kind)
  PROVE  Errors'
<1>1. /\ raised \in Seq(ErrorRecord) /\ err \in 1..Len(raised) /\ LastRaised = Caught
      /\ err = Len(raised) /\ OthersSettled
  BY CaughtFacts
<1>2. pc' \notin Running /\ pc' \notin Failing /\ pc' \notin Hooking /\ LastRaised' = Caught
  BY <1>1 DEF Running, Failing, Hooking, LastRaised
<1>3. OthersSettled'
  <2>1. \A i \in 1..Len(raised) : Settled(raised[i])
    BY <1>1 DEF OthersSettled, Caught
  <2> QED
    BY <2>1 DEF OthersSettled, Settled
<1>4. InFlightIsLast' /\ err' \in 0..Len(raised')
  BY <1>1, <1>2 DEF InFlightIsLast
<1>5. NothingFailed' /\ KnownInFlight' /\ ParamsSeen'
  BY <1>2 DEF NothingFailed, KnownInFlight, ParamsSeen, Running, Failing
<1>6. ServerErrorAnswered' /\ DataIsDeliberate' /\ FailedResponds'
  BY <1>2 DEF ServerErrorAnswered, DataIsDeliberate, FailedResponds
<1> QED
  BY <1>1, <1>3, <1>4, <1>5, <1>6 DEF Errors

\* The error in flight is handed to the hooks.
LEMMA Escalated ==
  ASSUME IInv, pc \in Failing, Fresh(Caught), ServerError(Caught), Escalate, err' = err,
         pc' \in Hooking, ~headerSent' => status' = 500 /\ body' = "empty" /\ respond'
  PROVE  Errors'
<1>1. /\ raised \in Seq(ErrorRecord) /\ err \in 1..Len(raised) /\ err = Len(raised)
  BY CaughtFacts
<1>2. /\ raised' \in Seq(ErrorRecord) /\ raised' # <<>> /\ Len(raised') = Len(raised)
      /\ Caught'.escalated = 1 /\ Settled(Caught)' /\ ~Caught'.replaced /\ OthersSettled'
  BY EscalateFacts
<1>3. pc' \notin Running /\ pc' \in Failing /\ pc' \notin {"caught", "unwind", "boundary", "koa", "outbound", "done"}
  BY DEF Running, Failing, Hooking
<1>4. InFlightIsLast' /\ err' \in 0..Len(raised')
  BY <1>1, <1>2, <1>3 DEF InFlightIsLast
<1>5. NothingFailed' /\ KnownInFlight' /\ ParamsSeen'
  BY <1>2, <1>3 DEF NothingFailed, KnownInFlight, ParamsSeen, Running
<1>6. ServerErrorAnswered' /\ DataIsDeliberate' /\ FailedResponds'
  BY <1>3 DEF ServerErrorAnswered, DataIsDeliberate, FailedResponds
<1> QED
  BY <1>2, <1>4, <1>5, <1>6 DEF Errors

(***************************************************************************)
(* What is answered, by whom                                               *)
(***************************************************************************)

\* Statuses of errors, and who answers them in handle().
LEMMA KindFacts ==
  ASSUME NEW k \in Kinds
  PROVE  /\ StatusOf(k) \in {0, 401, 404, 413, 422, 500}
         /\ RouterStatus(k) \in {0, 400, 401, 404, 422}
         /\ RouterStatus(k) = 0 <=> ~Deliberate(k) /\ k \notin {"recordNotFound", "invalidParams"}
         /\ RouterStatus(k) # 0 /\ HasData(k) => Deliberate(k)
         /\ KoaCanHandle(k) \in Kinds /\ ~CrashesKoa(KoaCanHandle(k))
  BY DEF Kinds, StatusOf, RouterStatus, Deliberate, Rescuable, HasData, KoaCanHandle, CrashesKoa

\* The boundary answers what comes out of the router just when it is not a
\* server error.
LEMMA BoundaryFacts ==
  ASSUME NEW e \in ErrorRecord, ComesOut(e), ~e.rethrown
  PROVE  /\ AnsweredByBoundary(e) <=> ~ServerError(e)
         /\ BoundaryStatus(e) \in {0, 400, 401, 404, 413, 422, 500}
         /\ AnsweredByBoundary(e) /\ HasData(e.kind) => Deliberate(e.kind)
<1>1. /\ e.kind \in Kinds
      /\ e.where \in {"middleware", "render"}
      /\ e.parser => e.kind \in {"parser4xx", "decompression"}
  BY DEF ErrorRecord, ComesOut
<1>2. BoundaryStatus(e) \in {0, 400, 401, 404, 413, 422, 500}
  BY <1>1, KindFacts DEF BoundaryStatus
<1>4. CASE e.parser /\ e.kind \in {"parser4xx", "decompression"}
  <2>1. BoundaryStatus(e) \in {400, 413} /\ ~Deliberate(e.kind)
    BY <1>4 DEF BoundaryStatus, StatusOf, Deliberate, Rescuable
  <2>2. AnsweredByBoundary(e)
    BY <1>4, <2>1 DEF AnsweredByBoundary
  <2>3. ~ServerError(e) /\ ~HasData(e.kind)
    BY <1>1, <1>4 DEF ServerError, HasData
  <2> QED
    BY <1>2, <2>2, <2>3
<1>5. CASE ~e.parser
  <2>1. Deliberate(e.kind) => BoundaryStatus(e) # 0
    BY DEF Deliberate, Rescuable, BoundaryStatus, StatusOf
  <2>2. AnsweredByBoundary(e) <=> Deliberate(e.kind)
    BY <1>5, <2>1 DEF AnsweredByBoundary
  <2>3. ServerError(e) <=> ~Deliberate(e.kind)
    BY <1>1, <1>5 DEF ServerError
  <2> QED
    BY <1>2, <2>2, <2>3
<1> QED
  BY <1>1, <1>4, <1>5

\* Before the boundary answers, what it caught is fresh.
LEMMA AtBoundary ==
  ASSUME IInv, pc = "boundary"
  PROVE  ComesOut(Caught) /\ Fresh(Caught) /\ (~headerSent /\ Caught.rethrown => respond)
  BY DEF IInv, KnownInFlight, FailedResponds, ComesOut

\* A hook that returns has done nothing, or shaped the response.
LEMMA HookStep == IInv /\ HookReturns => Errors'
<1> SUFFICES ASSUME IInv, HookReturns PROVE Errors'
  OBVIOUS
<1>1. pc \in Hooking /\ pc \in Failing /\ pc \notin Running
  BY DEF HookReturns, Hooking, Failing, Running
<1>2. pc' = pc /\ err' = err /\ raised' = raised /\ headerSent' = headerSent /\ respond' = respond
  BY DEF HookReturns
<1>3. \/ status' = status /\ body' = body
      \/ headerSent /\ status' = status /\ body' = body
      \/ ~headerSent /\ status' = 422 /\ body' = "hook"
  BY DEF HookReturns, Write
<1>4. raised \in Seq(ErrorRecord) /\ err \in 0..Len(raised)
  BY DEF IInv, PipelineTypeOK
<1>5. InFlightIsLast' /\ OthersSettled'
  BY <1>2 DEF IInv, InFlightIsLast, OthersSettled, Settled
<1>6. NothingFailed' /\ ParamsSeen'
  BY <1>1, <1>2 DEF NothingFailed, ParamsSeen, Running
<1>7. KnownInFlight'
  BY <1>1, <1>2 DEF IInv, KnownInFlight, Caught, Hooking, Settled
<1>8. ServerErrorAnswered'
  BY <1>2, <1>3 DEF IInv, ServerErrorAnswered, LastRaised
<1>9. DataIsDeliberate'
  BY <1>1, <1>2 DEF DataIsDeliberate, Hooking, Running
<1>10. FailedResponds'
  BY <1>1, <1>2 DEF IInv, FailedResponds, Hooking
<1> QED
  BY <1>2, <1>4, <1>5, <1>6, <1>7, <1>8, <1>9, <1>10 DEF Errors

\* The request is over.
LEMMA DoneStep ==
  ASSUME IInv, pc = "outbound", pc' = "done", UNCHANGED <<response, raised, err>>
  PROVE  Errors'
<1>1. raised' = raised /\ err' = err /\ status' = status /\ body' = body
      /\ headerSent' = headerSent /\ respond' = respond
  BY DEF response
<1>2. raised \in Seq(ErrorRecord) /\ err \in 0..Len(raised)
  BY DEF IInv, PipelineTypeOK
<1>3. InFlightIsLast' /\ OthersSettled'
  BY <1>1 DEF IInv, InFlightIsLast, OthersSettled, Settled, Failing
<1>4. NothingFailed' /\ ParamsSeen' /\ KnownInFlight'
  BY DEF NothingFailed, ParamsSeen, KnownInFlight, Running, Hooking
<1>5. ServerErrorAnswered' /\ DataIsDeliberate'
  BY <1>1 DEF IInv, ServerErrorAnswered, DataIsDeliberate, LastRaised, Running
<1>6. FailedResponds'
  BY <1>1 DEF IInv, FailedResponds
<1> QED
  BY <1>1, <1>2, <1>3, <1>4, <1>5, <1>6 DEF Errors

\* Middleware around the router lets the error pass, or throws one instead.
LEMMA UnwindStep == IInv /\ Unwind => Errors'
<1> SUFFICES ASSUME IInv, Unwind PROVE Errors'
  OBVIOUS
<1>1. /\ pc = "unwind" /\ pc' = "boundary" /\ pc \in Failing
      /\ headerSent' = headerSent /\ respond' = respond /\ status' = status /\ body' = body
  BY DEF Unwind, Failing, response
<1>2. /\ raised \in Seq(ErrorRecord) /\ raised # <<>> /\ err = Len(raised) /\ err \in 1..Len(raised)
      /\ Caught \in ErrorRecord /\ LastRaised = Caught /\ OthersSettled
  BY <1>1, CaughtFacts
<1>3. ComesOut(Caught) /\ (~headerSent /\ Caught.rethrown => respond)
  BY <1>1 DEF IInv, KnownInFlight, FailedResponds
<1>4. NothingFailed' /\ ParamsSeen' /\ DataIsDeliberate'
  BY <1>1 DEF NothingFailed, ParamsSeen, DataIsDeliberate, Running
<1>5. CASE raised' = raised /\ err' = err
  <2>1. InFlightIsLast' /\ OthersSettled'
    BY <1>1, <1>2, <1>5 DEF InFlightIsLast, OthersSettled, Settled, Failing
  <2>2. KnownInFlight' /\ FailedResponds'
    BY <1>1, <1>3, <1>5 DEF KnownInFlight, FailedResponds, Caught, Hooking, ComesOut, Fresh, CrashesKoa
  <2>3. ServerErrorAnswered'
    BY <1>1, <1>5 DEF IInv, ServerErrorAnswered, LastRaised
  <2> QED
    BY <1>2, <1>4, <1>5, <2>1, <2>2, <2>3 DEF Errors
<1>6. ASSUME NEW k \in MiddlewareKinds,
             raised' = Append([raised EXCEPT ![err].replaced = TRUE], NewError(k, "middleware")),
             err' = Len(raised) + 1
      PROVE  Errors'
  <2> DEFINE e == NewError(k, "middleware")
             r == [Caught EXCEPT !.replaced = TRUE]
             rest == [raised EXCEPT ![err] = r]
  <2>1. k \in Kinds
    BY KindsAssumption
  <2>2. e \in ErrorRecord /\ ComesOut(e) /\ Fresh(e) /\ ~e.rethrown
    BY <2>1, NewErrorFacts DEF ComesOut
  <2>3. r \in ErrorRecord /\ Settled(r)
    BY <1>2 DEF ErrorRecord, Settled
  <2>4. raised' = Append(rest, e)
    BY <1>6 DEF Caught
  <2> HIDE DEF e, r, rest
  <2>5. /\ rest \in Seq(ErrorRecord) /\ Len(rest) = Len(raised) /\ rest[err] = r
        /\ \A j \in 1..Len(raised) : j # err => rest[j] = raised[j]
    BY <1>2, <2>3, UpdateFacts DEF rest
  <2>6. /\ raised' \in Seq(ErrorRecord) /\ raised' # <<>> /\ Len(raised') = Len(raised) + 1
        /\ raised'[Len(raised) + 1] = e /\ Len(raised) \in Nat
        /\ \A j \in 1..Len(raised) : raised'[j] = rest[j]
    BY <2>2, <2>4, <2>5, AppendFacts
  <2>7. Caught' = e /\ LastRaised' = e
    BY <1>6, <2>6 DEF Caught, LastRaised
  <2>8. \A j \in 1..Len(raised) : Settled(rest[j])
    BY <1>2, <2>3, <2>5 DEF OthersSettled
  <2>9. OthersSettled'
    BY <1>6, <2>6, <2>8 DEF OthersSettled, Settled
  <2>10. InFlightIsLast' /\ err' \in 0..Len(raised')
    BY <1>1, <1>6, <2>6 DEF InFlightIsLast, Failing
  <2>11. KnownInFlight' /\ FailedResponds' /\ ServerErrorAnswered'
    <3>1. KnownInFlight'
      BY <1>1, <2>2, <2>7 DEF KnownInFlight, Hooking, ComesOut, Fresh, CrashesKoa
    <3>2. FailedResponds' /\ ServerErrorAnswered'
      BY <1>1, <2>2, <2>7 DEF FailedResponds, ServerErrorAnswered, Hooking, Fresh
    <3> QED
      BY <3>1, <3>2
  <2> QED
    BY <1>4, <2>6, <2>9, <2>10, <2>11 DEF Errors
<1> QED
  BY <1>5, <1>6 DEF Unwind

\* What the boundary cannot answer any more goes to Koa, in a form it handles.
LEMMA PassStep == IInv /\ PassToKoa => Errors'
<1> SUFFICES ASSUME IInv, PassToKoa PROVE Errors'
  OBVIOUS
<1>1. /\ pc = "boundary" /\ pc' = "koa" /\ pc \in Failing /\ err' = err
      /\ headerSent' = headerSent /\ respond' = respond /\ status' = status /\ body' = body
      /\ Caught.rethrown \/ headerSent
  BY DEF PassToKoa, Failing, response
<1>2. /\ raised \in Seq(ErrorRecord) /\ raised # <<>> /\ err = Len(raised) /\ err \in 1..Len(raised)
      /\ Caught \in ErrorRecord /\ LastRaised = Caught /\ OthersSettled
  BY <1>1, CaughtFacts
<1>3. ComesOut(Caught) /\ Fresh(Caught) /\ (~headerSent /\ Caught.rethrown => respond)
  BY <1>1, AtBoundary
<1>4. NothingFailed' /\ ParamsSeen' /\ DataIsDeliberate'
  BY <1>1 DEF NothingFailed, ParamsSeen, DataIsDeliberate, Running
<1>5. CASE Caught.rethrown
  <2>1. raised' = raised
    BY <1>5 DEF PassToKoa
  <2>2. Settled(Caught) /\ Caught.escalated = 0 /\ ~Caught.replaced /\ ~CrashesKoa(Caught.kind)
    BY <1>3, <1>5 DEF ComesOut, Fresh, Settled, ServerError
  <2>3. Caught' = Caught /\ LastRaised' = Caught
    BY <1>1, <1>2, <2>1 DEF Caught, LastRaised
  <2>4. InFlightIsLast' /\ OthersSettled'
    BY <1>1, <1>2, <2>1 DEF InFlightIsLast, OthersSettled, Settled, Failing
  <2>5. KnownInFlight'
    BY <1>1, <2>2, <2>3 DEF KnownInFlight, Hooking, Settled
  <2>6. FailedResponds' /\ ServerErrorAnswered'
    BY <1>1, <1>3, <1>5, <2>2, <2>3 DEF FailedResponds, ServerErrorAnswered
  <2> QED
    BY <1>1, <1>2, <1>4, <2>1, <2>4, <2>5, <2>6 DEF Errors
<1>6. CASE ~Caught.rethrown
  <2> DEFINE e == [Caught EXCEPT !.late = TRUE, !.kind = KoaCanHandle(@)]
  <2>1. raised' = [raised EXCEPT ![err] = e]
    BY <1>6 DEF PassToKoa, Caught
  <2>2. Caught.kind \in Kinds
    BY <1>2 DEF ErrorRecord
  <2>3. KoaCanHandle(Caught.kind) \in Kinds /\ ~CrashesKoa(KoaCanHandle(Caught.kind))
    BY <2>2, KindFacts
  <2>4. e \in ErrorRecord /\ e.kind = KoaCanHandle(Caught.kind) /\ e.late
        /\ e.escalated = Caught.escalated /\ e.replaced = Caught.replaced
    BY <1>2, <2>3 DEF ErrorRecord
  <2>5. Settled(e) /\ e.escalated = 0 /\ ~e.replaced /\ ~CrashesKoa(e.kind)
    BY <1>3, <2>3, <2>4 DEF Settled, Fresh
  <2> HIDE DEF e
  <2>6. /\ raised' \in Seq(ErrorRecord) /\ raised' # <<>> /\ Len(raised') = Len(raised)
        /\ raised'[err] = e
        /\ \A j \in 1..Len(raised) : j # err => raised'[j] = raised[j]
    BY <1>2, <2>1, <2>4, UpdateFacts
  <2>7. Caught' = e /\ LastRaised' = e
    BY <1>1, <1>2, <2>6 DEF Caught, LastRaised
  <2>8. InFlightIsLast' /\ err' \in 0..Len(raised')
    BY <1>1, <1>2, <2>6 DEF InFlightIsLast, Failing
  <2>9. OthersSettled'
    BY <1>1, <1>2, <2>6 DEF OthersSettled, Settled
  <2>10. KnownInFlight'
    BY <1>1, <2>5, <2>7 DEF KnownInFlight, Hooking, Settled
  <2>11. FailedResponds' /\ ServerErrorAnswered'
    BY <1>1, <1>6 DEF FailedResponds, ServerErrorAnswered
  <2> QED
    BY <1>4, <2>6, <2>8, <2>9, <2>10, <2>11 DEF Errors
<1> QED
  BY <1>5, <1>6

(***************************************************************************)
(* Every step                                                              *)
(***************************************************************************)

\* A write to the response takes place unless its headers are out.
LEMMA WriteFacts ==
  ASSUME NEW s, NEW b, Write(s, b)
  PROVE  /\ status' \in {status, s} /\ body' \in {body, b}
         /\ ~headerSent => status' = s /\ body' = b
  BY DEF Write

\* The index of the next before action or hook stays within bounds.
LEMMA AtStep ==
  ASSUME IInv, PipelineNext
  PROVE  at' \in 1..(IF NBefore > NHooks THEN NBefore ELSE NHooks) + 1
<1>1. at \in 1..(IF NBefore > NHooks THEN NBefore ELSE NHooks) + 1
  BY DEF IInv, PipelineTypeOK
<1>2. \/ at' \in {at, 1}
      \/ at' = at + 1 /\ (at <= NBefore \/ at <= NHooks)
  <2>1. CASE ControllerCall
    BY <2>1 DEF ControllerCall, SendStatus, SendJson, Redirect, OptOut, Throw, ReadParams
  <2>2. CASE Middleware \/ BodyParser \/ Dispatch
    BY <2>2 DEF Middleware, BodyParser, Dispatch
  <2>3. CASE BeforeReturns \/ BeforesDone \/ RunAction \/ ActionReturns
    BY <2>3 DEF BeforeReturns, BeforesDone, RunAction, ActionReturns
  <2>4. CASE HandleKnownError \/ HandleServerError
    BY <2>4 DEF HandleKnownError, HandleServerError
  <2>5. CASE HookReturns \/ HooksDone \/ HookThrows
    BY <2>5 DEF HookReturns, HooksDone, HookThrows
  <2>6. CASE Outbound \/ Unwind \/ PassToKoa
    BY <2>6 DEF Outbound, Unwind, PassToKoa
  <2>7. CASE BoundaryAnswers \/ BoundaryEscalates \/ KoaAnswers \/ Finished
    BY <2>7 DEF BoundaryAnswers, BoundaryEscalates, KoaAnswers, Finished, pipelineVars
  <2> QED
    BY <2>1, <2>2, <2>3, <2>4, <2>5, <2>6, <2>7 DEF PipelineNext
<1> QED
  BY <1>1, <1>2, PipelineAssumption

\* So do the calls made.
LEMMA CallsStep ==
  ASSUME IInv, PipelineNext
  PROVE  calls' \in 0..MaxCalls
<1>1. calls \in 0..MaxCalls
  BY DEF IInv, PipelineTypeOK
<1>2. \/ calls' = calls
      \/ calls' = calls + 1 /\ calls < MaxCalls
  <2>1. CASE ControllerCall
    BY <2>1 DEF ControllerCall, SendStatus, SendJson, Redirect, OptOut, Throw, ReadParams, Call
  <2>2. CASE Middleware \/ BodyParser \/ Dispatch
    BY <2>2 DEF Middleware, BodyParser, Dispatch
  <2>3. CASE BeforeReturns \/ BeforesDone \/ RunAction \/ ActionReturns
    BY <2>3 DEF BeforeReturns, BeforesDone, RunAction, ActionReturns
  <2>4. CASE HandleKnownError \/ HandleServerError
    BY <2>4 DEF HandleKnownError, HandleServerError
  <2>5. CASE HookReturns \/ HooksDone \/ HookThrows
    BY <2>5 DEF HookReturns, HooksDone, HookThrows
  <2>6. CASE Outbound \/ Unwind \/ PassToKoa
    BY <2>6 DEF Outbound, Unwind, PassToKoa
  <2>7. CASE BoundaryAnswers \/ BoundaryEscalates \/ KoaAnswers \/ Finished
    BY <2>7 DEF BoundaryAnswers, BoundaryEscalates, KoaAnswers, Finished, pipelineVars
  <2> QED
    BY <2>1, <2>2, <2>3, <2>4, <2>5, <2>6, <2>7 DEF PipelineNext
<1> QED
  BY <1>1, <1>2, PipelineAssumption

\* Control only goes where the code sends it.
LEMMA PcStep ==
  ASSUME IInv, PipelineNext
  PROVE  pc' \in Pcs
<1>1. pc \in Pcs
  BY DEF IInv, PipelineTypeOK
<1> QED
  BY <1>1 DEF Pcs, ValidateParams,
         PipelineNext, Middleware, BodyParser, Dispatch, ControllerCall, SendStatus, SendJson,
         Redirect, OptOut, Throw, ReadParams, BeforeReturns, BeforesDone, RunAction, ActionReturns,
         HandleKnownError, HandleServerError, HookReturns, HooksDone, HookThrows, Outbound, Unwind,
         PassToKoa, BoundaryAnswers, BoundaryEscalates, KoaAnswers, Finished, pipelineVars

\* What a request is given stays, and what is a flag stays one.
LEMMA FlagsStep ==
  ASSUME IInv, PipelineNext
  PROVE  /\ devOrTest' \in BOOLEAN /\ invalid' \in {"none", "query", "other"}
         /\ headerSent' \in BOOLEAN /\ respond' \in BOOLEAN
         /\ sent' \in BOOLEAN /\ validated' \in BOOLEAN
<1>1. /\ devOrTest \in BOOLEAN /\ invalid \in {"none", "query", "other"}
      /\ headerSent \in BOOLEAN /\ respond \in BOOLEAN
      /\ sent \in BOOLEAN /\ validated \in BOOLEAN
  BY DEF IInv, PipelineTypeOK
<1>2. CASE ControllerCall
  <2>1. CASE SendStatus
    BY <1>1, <2>1 DEF SendStatus, fixed, response
  <2>2. CASE SendJson
    BY <1>1, <2>2 DEF SendJson, fixed, response
  <2>3. CASE Redirect
    BY <1>1, <2>3 DEF Redirect, fixed, response
  <2>4. CASE OptOut
    BY <1>1, <2>4 DEF OptOut, fixed, response
  <2>5. CASE Throw
    BY <1>1, <2>5 DEF Throw, fixed, response
  <2>6. CASE ReadParams
    BY <1>1, <2>6 DEF ReadParams, fixed, response
  <2> QED
    BY <1>2, <2>1, <2>2, <2>3, <2>4, <2>5, <2>6 DEF ControllerCall
<1>3. CASE Middleware \/ BodyParser \/ Dispatch
  <2>1. CASE Middleware
    BY <1>1, <2>1 DEF Middleware, fixed, response
  <2>2. CASE BodyParser
    BY <1>1, <2>2 DEF BodyParser, fixed, response
  <2>3. CASE Dispatch
    <3>1. /\ UNCHANGED <<devOrTest, invalid, headerSent, respond, validated>>
          /\ sent' = sent \/ sent' = TRUE
      BY <2>3 DEF Dispatch, fixed
    <3> QED
      BY <1>1, <3>1
  <2> QED
    BY <1>3, <2>1, <2>2, <2>3
<1>4. CASE BeforeReturns \/ BeforesDone \/ RunAction \/ ActionReturns
  BY <1>1, <1>4 DEF BeforeReturns, BeforesDone, RunAction, ActionReturns, ValidateParams, fixed, response
<1>5. CASE HandleKnownError \/ HandleServerError
  <2>1. CASE HandleKnownError
    BY <1>1, <2>1 DEF HandleKnownError, fixed, response
  <2>2. CASE HandleServerError
    BY <1>1, <2>2 DEF HandleServerError, fixed, response
  <2> QED
    BY <1>5, <2>1, <2>2
<1>6. CASE HookReturns \/ HooksDone \/ HookThrows
  BY <1>1, <1>6 DEF HookReturns, HooksDone, HookThrows, fixed, response
<1>7. CASE Outbound \/ Unwind \/ PassToKoa
  BY <1>1, <1>7 DEF Outbound, Unwind, PassToKoa, fixed, response
<1>8. CASE BoundaryAnswers \/ BoundaryEscalates \/ KoaAnswers \/ Finished
  <2>1. CASE BoundaryAnswers
    BY <1>1, <2>1 DEF BoundaryAnswers, fixed, response
  <2>2. CASE BoundaryEscalates
    BY <1>1, <2>2 DEF BoundaryEscalates, fixed, response
  <2>3. CASE KoaAnswers
    BY <1>1, <2>3 DEF KoaAnswers, fixed, response
  <2>4. CASE Finished
    BY <1>1, <2>4 DEF Finished, pipelineVars, fixed, response
  <2> QED
    BY <1>8, <2>1, <2>2, <2>3, <2>4
<1> QED
  BY <1>2, <1>3, <1>4, <1>5, <1>6, <1>7, <1>8 DEF PipelineNext

Statuses == {200, 201, 204, 302, 400, 401, 404, 413, 422, 500}
Writers == {"unset", "action", "data", "empty", "hook", "koa", "unanswered"}

\* The statuses written for errors are the ones the code knows.
LEMMA CaughtStatuses ==
  ASSUME IInv, pc \in Failing
  PROVE  /\ RouterStatus(Caught.kind) # 0 => RouterStatus(Caught.kind) \in Statuses
         /\ StatusOf(Caught.kind) # 0 => StatusOf(Caught.kind) \in Statuses
         /\ BoundaryStatus(Caught) # 0 => BoundaryStatus(Caught) \in Statuses
<1>1. Caught.kind \in Kinds
  BY CaughtFacts DEF ErrorRecord
<1> QED
  BY <1>1, KindFacts DEF BoundaryStatus, Statuses

\* The response is one that somebody wrote.
LEMMA ResponseStep ==
  ASSUME IInv, PipelineNext
  PROVE  status' \in Statuses /\ body' \in Writers
<1>1. status \in Statuses /\ body \in Writers
  BY DEF IInv, PipelineTypeOK, Statuses, Writers
<1>2. ASSUME NEW s \in Statuses, NEW b \in Writers, Write(s, b)
      PROVE  status' \in Statuses /\ body' \in Writers
  BY <1>1, <1>2, WriteFacts
<1>3. {200, 201, 204, 302, 404, 422, 500} \subseteq Statuses
      /\ {"action", "data", "empty", "hook", "koa", "unanswered"} \subseteq Writers
  BY DEF Statuses, Writers
<1>4. CASE ControllerCall
  <2>1. \/ UNCHANGED <<status, body>>
        \/ \E s \in {200, 201, 204, 302, status}, b \in {"action", "empty", body} : Write(s, b)
    <3>1. CASE SendStatus \/ Redirect
      BY <3>1 DEF SendStatus, Redirect
    <3>2. CASE SendJson
      BY <3>2 DEF SendJson
    <3>3. CASE OptOut \/ Throw \/ ReadParams
      BY <3>3 DEF OptOut, Throw, ReadParams, response
    <3> QED
      BY <1>4, <3>1, <3>2, <3>3 DEF ControllerCall
  <2> QED
    BY <1>1, <1>2, <1>3, <2>1
<1>5. CASE Middleware \/ BodyParser \/ Dispatch
  <2>1. \/ UNCHANGED <<status, body>>
        \/ \E s \in {200, 404}, b \in {"empty", body} : Write(s, b)
    BY <1>5 DEF Middleware, BodyParser, Dispatch, response
  <2> QED
    BY <1>1, <1>2, <1>3, <2>1
<1>6. CASE BeforeReturns \/ BeforesDone \/ RunAction \/ ActionReturns
  BY <1>1, <1>6 DEF BeforeReturns, BeforesDone, RunAction, ActionReturns, response
<1>7. CASE HandleKnownError
  <2>1. RouterStatus(Caught.kind) \in Statuses
    BY <1>7, CaughtStatuses DEF HandleKnownError, Failing
  <2>2. \/ UNCHANGED <<status, body>>
        \/ \E b \in {"data", "empty"} : Write(RouterStatus(Caught.kind), b)
    BY <1>7 DEF HandleKnownError
  <2> QED
    BY <1>1, <1>2, <1>3, <2>1, <2>2
<1>8. CASE HandleServerError \/ HookReturns \/ BoundaryEscalates
  <2>1. \/ UNCHANGED <<status, body>>
        \/ \E s \in {422, 500}, b \in {"hook", "empty"} : Write(s, b)
    BY <1>8 DEF HandleServerError, HookReturns, BoundaryEscalates
  <2> QED
    BY <1>1, <1>2, <1>3, <2>1
<1>9. CASE HooksDone \/ HookThrows \/ Outbound \/ Unwind \/ PassToKoa \/ Finished
  BY <1>1, <1>9 DEF HooksDone, HookThrows, Outbound, Unwind, PassToKoa, Finished, response, pipelineVars
<1>10. CASE BoundaryAnswers
  <2>1. BoundaryStatus(Caught) \in Statuses
    BY <1>10, CaughtStatuses DEF BoundaryAnswers, AnsweredByBoundary, Failing
  <2>2. \E b \in {"data", "empty", body} : Write(BoundaryStatus(Caught), b)
    BY <1>10 DEF BoundaryAnswers
  <2> QED
    BY <1>1, <1>2, <1>3, <2>1, <2>2
<1>11. CASE KoaAnswers
  <2> DEFINE s == IF StatusOf(Caught.kind) = 0 THEN 500 ELSE StatusOf(Caught.kind)
  <2>1. s \in Statuses
    BY <1>3, <1>11, CaughtStatuses DEF KoaAnswers, Failing
  <2>2. Write(s, "koa") \/ Write(status, "unanswered")
    BY <1>11 DEF KoaAnswers
  <2> QED
    BY <1>1, <1>2, <1>3, <2>1, <2>2
<1> QED
  BY <1>4, <1>5, <1>6, <1>7, <1>8, <1>9, <1>10, <1>11 DEF PipelineNext

\* While the request runs, the only errors are those their reader caught.
LEMMA RunningFacts ==
  ASSUME IInv, pc \in Running
  PROVE  /\ raised \in Seq(ErrorRecord) /\ pc \notin Failing /\ body # "data"
         /\ \A i \in 1..Len(raised) : raised[i].replaced /\ raised[i].escalated = 0
         /\ pc \in {"inbound", "dispatch"} => ~validated
         /\ pc = "action" => validated
         /\ pc \in {"before", "validate", "action"} /\ validated /\ invalid # "none" => SawFailure
  BY DEF IInv, PipelineTypeOK, NothingFailed, DataIsDeliberate, ParamsSeen, Running, Failing

\* Middleware, the body parser and the router on the way in.
LEMMA InboundStep == IInv /\ (Middleware \/ BodyParser \/ Dispatch) => Errors'
<1>1. ASSUME IInv, Middleware PROVE Errors'
  <2>1. pc = "inbound" /\ pc \in Running /\ UNCHANGED <<invalid, validated>>
    BY <1>1 DEF Middleware, Running, fixed
  <2>2. ASSUME NEW k \in MiddlewareKinds, Raise(k, "middleware"), pc' = "boundary"
        PROVE  Errors'
    <3>1. k \in Kinds
      BY KindsAssumption
    <3>2. NewError(k, "middleware") \in ErrorRecord /\ ComesOut(NewError(k, "middleware"))
          /\ ~NewError(k, "middleware").rethrown
      BY <3>1, NewErrorFacts DEF ComesOut
    <3> QED
      BY <1>1, <2>1, <2>2, <3>2, Thrown, RunningFacts DEF Raise
  <2>3. CASE pc' = "dispatch" /\ UNCHANGED <<body, raised, err>>
    <3>1. ParamsSeen'
      BY <1>1, <2>1, <2>3, RunningFacts DEF ParamsSeen
    <3> QED
      BY <1>1, <2>1, <2>3, <3>1, GoesOn, RunningFacts DEF Running
  <2> QED
    BY <1>1, <2>2, <2>3 DEF Middleware, response
<1>2. ASSUME IInv, BodyParser PROVE Errors'
  <2>1. pc \in Running /\ pc' = "boundary"
    BY <1>2 DEF BodyParser, Running
  <2>2. ASSUME NEW k \in {"parser4xx", "decompression"},
               InFlight([NewError(k, "middleware") EXCEPT !.parser = TRUE])
        PROVE  Errors'
    <3> DEFINE e == [NewError(k, "middleware") EXCEPT !.parser = TRUE]
    <3>1. k \in Kinds
      BY DEF Kinds
    <3>2. e \in ErrorRecord /\ Fresh(e) /\ e.kind = k /\ e.where = "middleware" /\ ~e.rethrown
      BY <3>1, MarkedErrorFacts, ZenonT(60)
    <3> HIDE DEF e
    <3>3. ComesOut(e)
      BY <3>2 DEF ComesOut
    <3>4. InFlight(e)
      BY <2>2 DEF e
    <3> QED
      BY <1>2, <2>1, <3>2, <3>3, <3>4, Thrown, RunningFacts
  <2>3. ASSUME NEW k \in {"foreign4xx", "plain"}, Raise(k, "middleware")
        PROVE  Errors'
    <3>1. k \in Kinds
      BY DEF Kinds
    <3>2. NewError(k, "middleware") \in ErrorRecord /\ ComesOut(NewError(k, "middleware"))
          /\ ~NewError(k, "middleware").rethrown
      BY <3>1, NewErrorFacts DEF ComesOut
    <3> QED
      BY <1>2, <2>1, <2>3, <3>2, Thrown, RunningFacts DEF Raise
  <2> QED
    BY <1>2, <2>2, <2>3 DEF BodyParser
<1>3. ASSUME IInv, Dispatch PROVE Errors'
  <2>1. pc = "dispatch" /\ pc \in Running /\ UNCHANGED <<invalid, validated>>
    BY <1>3 DEF Dispatch, Running, fixed
  <2>2. CASE Raise("plain", "middleware") /\ pc' = "unwind"
    <3>1. NewError("plain", "middleware") \in ErrorRecord /\ ComesOut(NewError("plain", "middleware"))
          /\ ~NewError("plain", "middleware").rethrown
      BY NewErrorFacts DEF ComesOut, Kinds
    <3> QED
      BY <1>3, <2>1, <2>2, <3>1, Thrown, RunningFacts DEF Raise
  <2>3. CASE pc' \in {"before", "validate", "outbound"} /\ body' \in {body, "empty"} /\ UNCHANGED <<raised, err>>
    <3>1. ParamsSeen'
      BY <1>3, <2>1, <2>3, RunningFacts DEF ParamsSeen
    <3> QED
      BY <1>3, <2>1, <2>3, <3>1, GoesOn, RunningFacts DEF Running
  <2> QED
    BY <1>3, <2>2, <2>3, WriteFacts DEF Dispatch
<1> QED
  BY <1>1, <1>2, <1>3

\* An error thrown by the controller reaches handle()'s catch.
LEMMA ControllerThrows ==
  ASSUME IInv, pc \in Running, NEW k \in Kinds, Raise(k, "controller"), pc' = "caught",
         body' \in {body, "empty", "action"}
  PROVE  Errors'
<1>1. /\ NewError(k, "controller") \in ErrorRecord /\ Fresh(NewError(k, "controller"))
      /\ NewError(k, "controller").where = "controller"
  BY NewErrorFacts
<1>2. body' # "data" /\ pc \notin Failing
  BY RunningFacts
<1> QED
  BY <1>1, <1>2, Thrown DEF Raise

\* A call that answers, or opts out.
LEMMA AnswerStep ==
  ASSUME IInv, SendStatus \/ SendJson \/ Redirect \/ OptOut \/ Throw
  PROVE  Errors'
<1>1. pc \in Running /\ pc \in {"before", "action"} /\ UNCHANGED <<invalid, validated>>
  BY DEF SendStatus, SendJson, Redirect, OptOut, Throw, Call, Running, fixed
<1>2. ASSUME NEW k \in Kinds, Raise(k, "controller"), pc' = "caught",
             body' \in {body, "empty", "action"}
      PROVE  Errors'
  BY <1>1, <1>2, ControllerThrows
<1>3. CASE UNCHANGED <<pc, raised, err>> /\ body' \in {body, "empty", "action"}
  <2>1. ParamsSeen'
    BY <1>1, <1>3, RunningFacts DEF ParamsSeen, SawFailure
  <2> QED
    BY <1>1, <1>3, <2>1, GoesOn, RunningFacts
<1>4. CASE SendStatus
  BY <1>3, <1>4, WriteFacts DEF SendStatus
<1>5. CASE SendJson
  <2>1. PICK s \in {status, 201} :
           \/ (Write(s, body) \/ Write(s, "action")) /\ UNCHANGED <<pc, raised, err>>
           \/ Write(s, body) /\ Raise("plain", "controller") /\ pc' = "caught"
    BY <1>5 DEF SendJson
  <2>2. body' \in {body, "empty", "action"}
    BY <2>1, WriteFacts
  <2> QED
    BY <1>2, <1>3, <2>1, <2>2 DEF Kinds
<1>6. CASE Redirect
  <2>1. body' \in {body, "empty", "action"}
    BY <1>6, WriteFacts DEF Redirect
  <2> QED
    BY <1>2, <1>3, <1>6, <2>1 DEF Redirect, Kinds
<1>7. CASE OptOut
  BY <1>3, <1>7 DEF OptOut
<1>8. CASE Throw
  <2>1. PICK k \in ActionKinds : Raise(k, "controller")
    BY <1>8 DEF Throw
  <2>2. k \in Kinds /\ pc' = "caught" /\ body' = body
    BY <1>8, KindsAssumption DEF Throw, response
  <2> QED
    BY <1>2, <2>1, <2>2
<1> QED
  BY <1>4, <1>5, <1>6, <1>7, <1>8

\* Reading the params validates them, and records that it did.
LEMMA ReadStep == IInv /\ ReadParams => Errors'
<1> SUFFICES ASSUME IInv, ReadParams PROVE Errors'
  OBVIOUS
<1> DEFINE fails == invalid = "query" \/ (~validated /\ invalid = "other")
           e == [NewError("invalidParams", "controller") EXCEPT !.replaced = TRUE]
<1>1. /\ pc \in Running /\ pc \in {"before", "action"} /\ invalid' = invalid /\ body' = body
      /\ validated' = TRUE
      /\ invalid \in {"none", "query", "other"}
  BY DEF ReadParams, Call, Running, fixed, response, IInv, PipelineTypeOK
<1>2. "invalidParams" \in Kinds
  BY DEF Kinds
<1>3. CASE Raise("invalidParams", "controller") /\ pc' = "caught"
  BY <1>1, <1>2, <1>3, ControllerThrows
<1>4. CASE fails /\ raised' = Append(raised, e) /\ UNCHANGED <<pc, err>>
  <2>1. e \in ErrorRecord /\ e.replaced /\ e.escalated = 0 /\ e.kind = "invalidParams"
    BY <1>2, MarkedErrorFacts, ZenonT(60)
  <2> HIDE DEF e
  <2>2. raised \in Seq(ErrorRecord)
    BY <1>1, RunningFacts
  <2>3. /\ raised' \in Seq(ErrorRecord) /\ Len(raised') = Len(raised) + 1
        /\ raised'[Len(raised) + 1] = e /\ Len(raised) \in Nat
        /\ \A i \in 1..Len(raised) : raised'[i] = raised[i]
    BY <1>4, <2>1, <2>2, AppendFacts
  <2>4. \A i \in 1..Len(raised') : raised'[i].replaced /\ raised'[i].escalated = 0
    <3>1. \A i \in 1..Len(raised) : raised'[i].replaced /\ raised'[i].escalated = 0
      BY <1>1, <2>3, RunningFacts
    <3> QED
      BY <2>1, <2>3, <3>1
  <2>5. SawFailure'
    <3>1. Len(raised) + 1 \in 1..Len(raised')
      BY <2>3
    <3> QED
      BY <2>1, <2>3, <3>1 DEF SawFailure
  <2>6. ParamsSeen'
    BY <1>1, <1>4, <2>5 DEF ParamsSeen
  <2> QED
    BY <1>1, <1>4, <2>3, <2>4, <2>6, GoesOn
<1>5. CASE ~fails /\ UNCHANGED <<pc, raised, err>>
  <2>1. invalid # "none" => SawFailure
    BY <1>1, <1>5, RunningFacts
  <2>2. ParamsSeen'
    BY <1>1, <1>5, <2>1 DEF ParamsSeen, SawFailure
  <2> QED
    BY <1>1, <1>5, <2>2, GoesOn, RunningFacts
<1> QED
  BY <1>3, <1>4, <1>5 DEF ReadParams

\* From before action to before action, to validation, to the action, and out.
LEMMA AdvanceStep ==
  ASSUME IInv, BeforeReturns \/ BeforesDone \/ RunAction \/ ActionReturns
  PROVE  Errors'
<1>1. /\ pc \in Running /\ pc \in {"before", "validate", "action"}
      /\ invalid' = invalid /\ body' = body /\ validated \in BOOLEAN
  BY DEF BeforeReturns, BeforesDone, RunAction, ActionReturns, Running, fixed, response,
         IInv, PipelineTypeOK
<1>2. CASE pc' \in {"before", "validate", "outbound"} /\ UNCHANGED <<validated, raised, err>>
  <2>1. ParamsSeen'
    BY <1>1, <1>2, RunningFacts DEF ParamsSeen, SawFailure
  <2> QED
    BY <1>1, <1>2, <2>1, GoesOn, RunningFacts DEF Running
<1>3. CASE RunAction /\ ValidateParams("action")
  <2>1. CASE Raise("invalidParams", "controller") /\ pc' = "caught"
    BY <1>1, <2>1, ControllerThrows DEF Kinds
  <2>2. CASE (validated \/ invalid = "none") /\ pc' = "action" /\ UNCHANGED <<raised, err>>
    <3>1. invalid # "none" => SawFailure
      BY <1>1, <2>2, RunningFacts
    <3>2. validated'
      BY <1>3 DEF ValidateParams
    <3>3. ParamsSeen'
      BY <1>1, <2>2, <3>1, <3>2 DEF ParamsSeen, SawFailure
    <3> QED
      BY <1>1, <2>2, <3>3, GoesOn, RunningFacts DEF Running
  <2> QED
    BY <1>3, <2>1, <2>2 DEF ValidateParams
<1>4. CASE BeforeReturns \/ BeforesDone \/ ActionReturns
  BY <1>1, <1>2, <1>4 DEF BeforeReturns, BeforesDone, ActionReturns, fixed
<1>5. CASE RunAction
  BY <1>2, <1>3, <1>5 DEF RunAction
<1> QED
  BY <1>4, <1>5

\* handle()'s catch answers what is no server error, and escalates the rest.
LEMMA CatchStep == IInv /\ (HandleKnownError \/ HandleServerError) => Errors'
<1> SUFFICES ASSUME IInv, HandleKnownError \/ HandleServerError PROVE Errors'
  OBVIOUS
<1>1. pc = "caught" /\ pc \in Failing /\ headerSent' = headerSent /\ (headerSent' \/ respond')
  <2>1. headerSent' = headerSent /\ respond' = (~headerSent \/ respond)
    BY DEF HandleKnownError, HandleServerError
  <2>2. headerSent' \/ respond'
    BY <2>1, Zenon
  <2> QED
    BY <2>1, <2>2 DEF HandleKnownError, HandleServerError, Failing
<1>2. Caught \in ErrorRecord /\ Caught.kind \in Kinds
  BY <1>1, CaughtFacts DEF ErrorRecord
<1>3. Fresh(Caught) /\ Caught.where = "controller" /\ body # "data"
  BY <1>1 DEF IInv, KnownInFlight, DataIsDeliberate
<1>4. /\ RouterStatus(Caught.kind) = 0 <=> ServerError(Caught)
      /\ RouterStatus(Caught.kind) # 0 /\ HasData(Caught.kind) => Deliberate(Caught.kind)
  <2>1. ServerError(Caught) <=> ~Deliberate(Caught.kind)
                                /\ Caught.kind \notin {"recordNotFound", "invalidParams"}
    BY <1>3 DEF ServerError
  <2> QED
    BY <1>2, <2>1, KindFacts
<1>5. CASE HandleServerError
  <2>1. ~headerSent' => status' = 500 /\ body' = "empty" /\ respond'
    BY <1>1, <1>5, WriteFacts DEF HandleServerError
  <2>2. Escalate /\ err' = err /\ pc' \in Hooking /\ ServerError(Caught)
    BY <1>4, <1>5 DEF HandleServerError, Hooking
  <2> QED
    BY <1>1, <1>3, <2>1, <2>2, Escalated
<1>6. CASE HandleKnownError
  <2>1. Settled(Caught) /\ Caught.escalated = 0
    BY <1>3, <1>4, <1>6 DEF HandleKnownError, Fresh, Settled
  <2>2. ASSUME NEW k \in RenderKinds, Raise(k, "render"), pc' = "unwind"
        PROVE  Errors'
    <3>1. k \in Kinds
      BY KindsAssumption
    <3>2. NewError(k, "render") \in ErrorRecord /\ ComesOut(NewError(k, "render"))
          /\ ~NewError(k, "render").rethrown
      BY <3>1, NewErrorFacts DEF ComesOut
    <3> QED
      BY <2>1, <2>2, <3>2, Thrown DEF Raise
  <2>3. CASE pc' = "outbound" /\ err' = 0 /\ raised' = raised /\ body' \in {body, "empty"}
    BY <1>1, <1>3, <2>1, <2>3, Answered
  <2>4. CASE /\ pc' = "outbound" /\ err' = 0 /\ raised' = raised /\ body' \in {body, "data"}
             /\ HasData(Caught.kind)
    BY <1>1, <1>4, <1>6, <2>1, <2>4, Answered DEF HandleKnownError
  <2>5. \/ (\E k \in RenderKinds : Raise(k, "render")) /\ pc' = "unwind"
        \/ /\ pc' = "outbound" /\ err' = 0 /\ raised' = raised
           /\ \/ body' = body
              \/ Write(RouterStatus(Caught.kind), IF HasData(Caught.kind) THEN "data" ELSE "empty")
    BY <1>6 DEF HandleKnownError
  <2> QED
    BY <2>2, <2>3, <2>4, <2>5, WriteFacts
<1> QED
  BY <1>5, <1>6

\* The hooks end: all of them ran, or one of them failed.
LEMMA HooksEndStep == IInv /\ (HooksDone \/ HookThrows) => Errors'
<1> SUFFICES ASSUME IInv, HooksDone \/ HookThrows PROVE Errors'
  OBVIOUS
<1>1. /\ pc \in {"routerHooks", "boundaryHooks"} /\ pc \in Hooking /\ pc \in Failing
      /\ headerSent' = headerSent /\ respond' = respond /\ status' = status /\ body' = body
  BY DEF HooksDone, HookThrows, Hooking, Failing, response
<1>2. /\ raised \in Seq(ErrorRecord) /\ raised # <<>> /\ err \in 1..Len(raised)
      /\ LastRaised = Caught
  BY <1>1, CaughtFacts
<1>3. Caught.escalated = 1 /\ Settled(Caught) /\ ~Caught.replaced
  BY <1>1 DEF IInv, KnownInFlight
<1>4. ~headerSent => body = "hook" \/ (status = 500 /\ body = "empty")
  BY <1>2, <1>3 DEF IInv, ServerErrorAnswered
<1>5. headerSent \/ respond
  BY <1>1, <1>2, <1>3 DEF IInv, FailedResponds, Caught
<1>6. CASE pc' \in {"outbound", "done"} /\ err' = 0 /\ raised' = raised
  BY <1>1, <1>3, <1>4, <1>5, <1>6, Answered
<1>7. ASSUME NEW k \in HookKinds,
             InFlight([NewError(KoaCanHandle(k), "hook") EXCEPT !.rethrown = (pc = "routerHooks")]),
             pc' = IF pc = "routerHooks" THEN "unwind" ELSE "koa"
      PROVE  Errors'
  <2> DEFINE h == KoaCanHandle(k)
             n == [NewError(h, "hook") EXCEPT !.rethrown = FALSE]
             e == [NewError(h, "hook") EXCEPT !.rethrown = TRUE]
  <2>1. h \in Kinds /\ ~CrashesKoa(h)
    BY KindFacts, KindsAssumption
  <2>2. CASE pc = "routerHooks"
    <3>1. e \in ErrorRecord /\ Fresh(e) /\ e.kind = h /\ e.where = "hook" /\ e.rethrown
      BY <2>1, MarkedErrorFacts
    <3>2. InFlight(e)
      BY <1>7, <2>2
    <3> HIDE DEF e, h, n
    <3>3. ComesOut(e)
      BY <2>1, <3>1 DEF ComesOut
    <3> QED
      BY <1>1, <1>3, <1>5, <1>7, <2>2, <3>1, <3>2, <3>3, Thrown
  <2>3. CASE pc = "boundaryHooks"
    <3>1. n \in ErrorRecord /\ Fresh(n) /\ n.kind = h /\ n.where = "hook"
      BY <2>1, MarkedErrorFacts
    <3>2. (pc = "routerHooks") = FALSE
      BY <2>3
    <3>3. InFlight(n)
      BY <1>7, <3>2
    <3> HIDE DEF e, h, n
    <3>4. Settled(n) /\ Fresh(n) /\ ~CrashesKoa(n.kind)
      BY <2>1, <3>1 DEF Settled, Fresh, ServerError
    <3> QED
      BY <1>1, <1>3, <1>5, <1>7, <2>3, <3>1, <3>3, <3>4, Thrown
  <2> QED
    BY <1>1, <2>2, <2>3
<1>8. CASE HooksDone
  BY <1>6, <1>8 DEF HooksDone
<1>9. CASE HookThrows
  BY <1>6, <1>7, <1>9 DEF HookThrows
<1> QED
  BY <1>8, <1>9

\* After the router, middleware may still fail.
LEMMA OutboundStep == IInv /\ Outbound => Errors'
<1> SUFFICES ASSUME IInv, Outbound PROVE Errors'
  OBVIOUS
<1>1. pc = "outbound" /\ pc \notin Failing /\ UNCHANGED response
  BY DEF Outbound, Failing
<1>2. CASE pc' = "done" /\ UNCHANGED <<raised, err>>
  BY <1>1, <1>2, DoneStep
<1>3. ASSUME NEW k \in MiddlewareKinds, Raise(k, "middleware"), pc' = "boundary"
      PROVE  Errors'
  <2>1. k \in Kinds
    BY KindsAssumption
  <2>2. NewError(k, "middleware") \in ErrorRecord /\ ComesOut(NewError(k, "middleware"))
        /\ ~NewError(k, "middleware").rethrown
    BY <2>1, NewErrorFacts DEF ComesOut
  <2> QED
    BY <1>1, <1>3, <2>2, Thrown DEF Raise
<1> QED
  BY <1>2, <1>3 DEF Outbound

\* The boundary answers what is no server error, and escalates the rest.
LEMMA BoundaryStep == IInv /\ (BoundaryAnswers \/ BoundaryEscalates) => Errors'
<1> SUFFICES ASSUME IInv, BoundaryAnswers \/ BoundaryEscalates PROVE Errors'
  OBVIOUS
<1>1. /\ pc = "boundary" /\ pc \in Failing /\ ~Caught.rethrown /\ ~headerSent
      /\ headerSent' = headerSent /\ respond' = TRUE
  BY DEF BoundaryAnswers, BoundaryEscalates, Failing
<1>2. Caught \in ErrorRecord
  BY <1>1, CaughtFacts
<1>3. ComesOut(Caught) /\ Fresh(Caught)
  BY <1>1, AtBoundary
<1>4. /\ AnsweredByBoundary(Caught) <=> ~ServerError(Caught)
      /\ AnsweredByBoundary(Caught) /\ HasData(Caught.kind) => Deliberate(Caught.kind)
  BY <1>1, <1>2, <1>3, BoundaryFacts
<1>5. CASE BoundaryEscalates
  <2>1. status' = 500 /\ body' = "empty"
    BY <1>1, <1>5, WriteFacts DEF BoundaryEscalates
  <2>2. Escalate /\ err' = err /\ pc' \in Hooking /\ ServerError(Caught)
    BY <1>4, <1>5 DEF BoundaryEscalates, Hooking
  <2> QED
    BY <1>1, <1>3, <2>1, <2>2, Escalated
<1>6. CASE BoundaryAnswers
  <2>1. Settled(Caught) /\ Caught.escalated = 0
    BY <1>3, <1>4, <1>6 DEF BoundaryAnswers, Fresh, Settled
  <2>2. ASSUME NEW k \in RenderKinds, Raise(k, "boundary"), pc' = "koa"
        PROVE  Errors'
    <3> DEFINE e == NewError(k, "boundary")
    <3>1. e \in ErrorRecord /\ Fresh(e) /\ e.where = "boundary"
      BY NewErrorFacts, KindsAssumption
    <3>2. InFlight(e)
      BY <2>2 DEF Raise
    <3> HIDE DEF e
    <3>3. Settled(e)
      BY <3>1 DEF Settled, Fresh, ServerError
    <3> QED
      BY <1>1, <2>1, <2>2, <3>1, <3>2, <3>3, Thrown
  <2>3. CASE pc' = "done" /\ err' = 0 /\ raised' = raised
    <3>1. body' = IF HasData(Caught.kind) THEN "data" ELSE "empty"
      BY <1>1, <1>6, <2>3, WriteFacts DEF BoundaryAnswers
    <3>2. body' = "data" => Deliberate(Caught.kind)
      BY <1>4, <1>6, <3>1 DEF BoundaryAnswers
    <3> QED
      BY <1>1, <2>1, <2>3, <3>2, Answered
  <2> QED
    BY <1>6, <2>2, <2>3 DEF BoundaryAnswers
<1> QED
  BY <1>5, <1>6

\* Koa answers with a body of its own.
LEMMA KoaStep == IInv /\ KoaAnswers => Errors'
<1> SUFFICES ASSUME IInv, KoaAnswers PROVE Errors'
  OBVIOUS
<1>1. /\ pc = "koa" /\ pc \in Failing /\ pc' = "done" /\ err' = 0 /\ raised' = raised
      /\ headerSent' = headerSent /\ respond' = respond
  BY DEF KoaAnswers, Failing
<1>2. Settled(Caught) /\ Caught.escalated = 0 /\ ~Caught.replaced
  BY <1>1 DEF IInv, KnownInFlight
<1>3. ~headerSent => body' \in {"koa", "unanswered"}
  BY WriteFacts DEF KoaAnswers
<1>4. headerSent \/ respond
  <2>1. err \in 1..Len(raised)
    BY <1>1, CaughtFacts
  <2> QED
    BY <1>1, <1>2, <2>1 DEF IInv, FailedResponds, Caught
<1> QED
  BY <1>1, <1>2, <1>3, <1>4, Answered

\* Nothing is known to have failed in a request that just came in.
LEMMA InitIInv == PipelineInit => IInv
<1> SUFFICES ASSUME PipelineInit PROVE IInv
  OBVIOUS
<1>1. PipelineTypeOK
  <2>1. 1 \in 1..(IF NBefore > NHooks THEN NBefore ELSE NHooks) + 1 /\ 0 \in 0..MaxCalls
    BY PipelineAssumption
  <2>2. raised \in Seq(ErrorRecord) /\ err \in 0..Len(raised)
    BY DEF PipelineInit
  <2> QED
    BY <2>1, <2>2, ZenonT(60) DEF PipelineInit, PipelineTypeOK, Pcs
<1>2. InFlightIsLast /\ OthersSettled /\ NothingFailed
  BY DEF PipelineInit, InFlightIsLast, OthersSettled, NothingFailed, Failing
<1>3. KnownInFlight /\ ServerErrorAnswered /\ DataIsDeliberate
  BY DEF PipelineInit, KnownInFlight, ServerErrorAnswered, DataIsDeliberate, Hooking
<1>4. FailedResponds /\ ParamsSeen
  BY DEF PipelineInit, FailedResponds, ParamsSeen, Hooking
<1> QED
  BY <1>1, <1>2, <1>3, <1>4 DEF IInv

\* Each action keeps the invariant.
LEMMA StepIInv == IInv /\ [PipelineNext]_pipelineVars => IInv'
<1> SUFFICES ASSUME IInv, [PipelineNext]_pipelineVars PROVE IInv'
  OBVIOUS
<1>1. CASE PipelineNext /\ ~Finished
  <2>1. Errors'
    BY <1>1, InboundStep, AnswerStep, ReadStep, AdvanceStep, CatchStep, HookStep, HooksEndStep,
       OutboundStep, UnwindStep, PassStep, BoundaryStep, KoaStep DEF PipelineNext, ControllerCall
  <2>2. /\ at' \in 1..(IF NBefore > NHooks THEN NBefore ELSE NHooks) + 1
        /\ calls' \in 0..MaxCalls /\ pc' \in Pcs
        /\ devOrTest' \in BOOLEAN /\ invalid' \in {"none", "query", "other"}
        /\ headerSent' \in BOOLEAN /\ respond' \in BOOLEAN
        /\ sent' \in BOOLEAN /\ validated' \in BOOLEAN
        /\ status' \in Statuses /\ body' \in Writers
    BY <1>1, AtStep, CallsStep, PcStep, FlagsStep, ResponseStep
  <2>3. PipelineTypeOK'
    BY <2>1, <2>2 DEF PipelineTypeOK, Errors, Statuses, Writers
  <2> QED
    BY <2>1, <2>3 DEF IInv, Errors
<1>2. CASE UNCHANGED pipelineVars
  <2>1. /\ devOrTest' = devOrTest /\ invalid' = invalid /\ pc' = pc /\ at' = at /\ calls' = calls
        /\ status' = status /\ body' = body /\ headerSent' = headerSent /\ respond' = respond
        /\ sent' = sent /\ validated' = validated /\ raised' = raised /\ err' = err
    BY <1>2 DEF pipelineVars, fixed, response
  <2>2. PipelineTypeOK'
    BY <2>1 DEF IInv, PipelineTypeOK
  <2>3. InFlightIsLast' /\ OthersSettled' /\ NothingFailed'
    BY <2>1 DEF IInv, InFlightIsLast, OthersSettled, NothingFailed, Settled
  <2>4. KnownInFlight'
    BY <2>1 DEF IInv, KnownInFlight, Caught, Settled, Fresh, ComesOut
  <2>5. ServerErrorAnswered' /\ DataIsDeliberate'
    BY <2>1 DEF IInv, ServerErrorAnswered, DataIsDeliberate, LastRaised
  <2>6. FailedResponds' /\ ParamsSeen'
    BY <2>1 DEF IInv, FailedResponds, ParamsSeen, SawFailure, Caught
  <2> QED
    BY <2>2, <2>3, <2>4, <2>5, <2>6 DEF IInv
<1> QED
  BY <1>1, <1>2 DEF Finished

(***************************************************************************)
(* Theorems                                                                *)
(***************************************************************************)

\* The invariant: an error in flight is the last one, the others are settled,
\* and whoever holds the one in flight holds the kind of error it expects.
THEOREM InductiveInvariant == PipelineSpec => []IInv
<1>1. PipelineInit => IInv
  BY InitIInv
<1>2. IInv /\ [PipelineNext]_pipelineVars => IInv'
  BY StepIInv
<1> QED
  BY <1>1, <1>2, PTL DEF PipelineSpec

\* Type correctness of the pipeline.
THEOREM TypeCorrect == PipelineSpec => []PipelineTypeOK
<1>1. IInv => PipelineTypeOK
  BY DEF IInv
<1> QED
  BY <1>1, InductiveInvariant, PTL

\* Whatever is thrown, and wherever: server:error hooks are called exactly
\* once with a server error, and never with anything else.
THEOREM AlwaysEscalatedExactlyOnce == PipelineSpec => []EscalatedExactlyOnce
<1>1. IInv => EscalatedExactlyOnce
  <2> SUFFICES ASSUME IInv, pc = "done", NEW i \in DOMAIN raised
               PROVE  Settled(raised[i])
    BY DEF EscalatedExactlyOnce, Settled
  <2>1. i \in 1..Len(raised) /\ err = 0
    BY DEF IInv, PipelineTypeOK, InFlightIsLast, Failing
  <2> QED
    BY <2>1 DEF IInv, OthersSettled
<1> QED
  BY <1>1, InductiveInvariant, PTL

\* A failed request is answered as the code promises, and Koa's own handler
\* gets an error that it crashes on only from the boundary's own rendering.
THEOREM FailuresAlwaysAnswered == PipelineSpec => []FailuresAnswered
<1>1. IInv => FailuresAnswered
  <2> SUFFICES ASSUME IInv PROVE FailuresAnswered
    OBVIOUS
  <2>1. pc = "koa" /\ CrashesKoa(Caught.kind) => Caught.where = "boundary"
    BY DEF IInv, KnownInFlight
  <2>2. ASSUME pc = "done", ~headerSent, raised # <<>>
        PROVE  /\ LastRaised.escalated = 1 => body = "hook" \/ (status = 500 /\ body = "empty")
               /\ body = "data" => Deliberate(LastRaised.kind)
               /\ (\E i \in DOMAIN raised : ~raised[i].replaced) => respond
    <3>1. DOMAIN raised = 1..Len(raised)
      BY DEF IInv, PipelineTypeOK
    <3> QED
      BY <2>2, <3>1 DEF IInv, ServerErrorAnswered, DataIsDeliberate, FailedResponds
  <2> QED
    BY <2>1, <2>2 DEF FailuresAnswered, LastRaised
<1> QED
  BY <1>1, InductiveInvariant, PTL

\* An action never runs on params that fail validation behind its back.
THEOREM ActionAlwaysSeesValidParams == PipelineSpec => []ActionSeesValidParams
<1>1. IInv => ActionSeesValidParams
  <2> SUFFICES ASSUME IInv, pc = "action", invalid # "none"
               PROVE  \E i \in DOMAIN raised : raised[i].kind = "invalidParams" /\ raised[i].replaced
    BY DEF ActionSeesValidParams
  <2>1. DOMAIN raised = 1..Len(raised)
    BY DEF IInv, PipelineTypeOK
  <2>2. SawFailure
    BY DEF IInv, ParamsSeen
  <2> QED
    BY <2>1, <2>2 DEF SawFailure
<1> QED
  BY <1>1, InductiveInvariant, PTL
=============================================================================
