--------------------------- MODULE OnboardingModal ---------------------------
(***************************************************************************)
(* The store-creation dialog of packages/web: TemplateMarketplace opens    *)
(* and closes it, OnboardingModal keeps the step, the form, the result and *)
(* isLoading while it is closed, and four steps are shown one at a time by *)
(* AnimatePresence with mode "wait".  A step that was left stays on the    *)
(* page until its exit animation ends, with the props of its last          *)
(* rendering and buttons that still work; the next step is mounted then.   *)
(* The server's answer to a quick-start, or to a domain check, can come at *)
(* any time or not at all.  Name, phone, email, package and template play  *)
(* no part: the dialog does not look at them.                              *)
(***************************************************************************)
EXTENDS Naturals, Sequences, FiniteSets

CONSTANTS
    Domains,      \* domains the user may type
    Short,        \* those of at most three characters, which are not checked
    NoDomain,     \* the empty field
    MaxLaunches,  \* bound on the quick-starts sent
    MaxChecks     \* bound on the domain checks in flight

VARIABLES
    step, shown,  \* the step of the dialog and the one on the page (0: closed)
    props,        \* what the step on the page was last rendered with
    domain, result, isLoading,   \* formData.domain, result and isLoading
    isTaken, checks,   \* of the mounted StepDomain: its state, its checks in flight
    launches,     \* the quick-starts sent
    reserved,     \* the domains that have a store, at the server
    raced         \* history: a button of a step already left was pressed

vars == <<step, shown, props, domain, result, isLoading, isTaken, checks, launches, reserved, raced>>

form   == <<domain, result, isLoading>>
check  == <<isTaken, checks>>
server == <<launches, reserved>>

Steps  == 1 .. 4
Fields == Domains \cup {NoDomain}
Props  == [domain: Fields, isLoading: BOOLEAN]
Launch == [domain: Fields, pc: {"sent", "created", "refused", "answered"}]

Init ==
    /\ step = 1 /\ shown = 0
    /\ domain = NoDomain /\ result = NoDomain /\ isLoading = FALSE
    /\ props = [domain |-> domain, isLoading |-> isLoading]
    /\ isTaken = FALSE /\ checks = 0
    /\ launches = <<>> /\ reserved \in {{}, {CHOOSE d \in Domains : TRUE}}
    /\ raced = FALSE

-----------------------------------------------------------------------------
(* The page.                                                               *)

\* A rendering reaches the step on the page unless that step was left.
Rendered == props' = IF shown' = step' THEN [domain |-> domain', isLoading |-> isLoading']
                                        ELSE props

\* handleSelect: the step the dialog was left at is mounted anew.
Open ==
    /\ shown = 0 /\ shown' = step
    /\ isTaken' = FALSE /\ checks' = 0
    /\ UNCHANGED <<step, form, server, raced>>
    /\ Rendered

Close ==
    /\ shown # 0 /\ shown' = 0
    /\ UNCHANGED <<step, props, form, check, server, raced>>

\* The exit animation ends.
ExitComplete ==
    /\ shown \notin {0, step} /\ shown' = step
    /\ isTaken' = FALSE /\ checks' = 0
    /\ UNCHANGED <<step, form, server, raced>>
    /\ Rendered

NextStepMutantUnbounded(s) == s + 1
NextStep(s) == IF s < 4 THEN s + 1 ELSE 4
PrevStep(s) == IF s > 1 THEN s - 1 ELSE 1
Raced    == raced' = (raced \/ shown # step)

-----------------------------------------------------------------------------
(* The steps.                                                              *)

\* A keystroke in StepDomain; domains longer than three characters are checked.
Type(d) ==
    /\ shown = 2 /\ domain' = d
    /\ IF d \in Short \cup {NoDomain} THEN checks' = checks
       ELSE checks < MaxChecks /\ checks' = checks + 1
    /\ UNCHANGED <<step, shown, result, isLoading, isTaken, server, raced>>
    /\ Rendered

\* The answers come in any order, and for whatever domain they were asked; an error
\* answer has no `available` and counts as taken, no answer changes nothing.
CheckAnswer ==
    /\ checks > 0 /\ checks' = checks - 1
    /\ isTaken' \in BOOLEAN
    /\ UNCHANGED <<step, shown, props, form, server, raced>>

MayContinue == \/ shown = 1
               \/ shown = 2 /\ props.domain # NoDomain /\ ~isTaken

Continue ==
    /\ MayContinue
    /\ step' = NextStep(step)
    /\ Raced
    /\ UNCHANGED <<shown, form, check, server>>
    /\ Rendered

Back ==
    /\ shown = 2 \/ (shown = 3 /\ ~props.isLoading)
    /\ step' = PrevStep(step)
    /\ Raced
    /\ UNCHANGED <<shown, form, check, server>>
    /\ Rendered

MayLaunchMutantAlways == shown = 3
MayLaunch == shown = 3 /\ ~props.isLoading

\* StepPackage sends the quick-start of the form it was rendered with.
LaunchStore ==
    /\ MayLaunch /\ Len(launches) < MaxLaunches
    /\ isLoading' = TRUE
    /\ launches' = Append(launches, [domain |-> props.domain, pc |-> "sent"])
    /\ Raced
    /\ UNCHANGED <<step, shown, domain, result, check, reserved>>
    /\ Rendered

-----------------------------------------------------------------------------
(* The server and its answers.                                             *)

\* OnboardingService.quickStart: a domain has one store; other errors refuse too.
Serve(i) ==
    LET d == launches[i].domain
    IN  /\ launches[i].pc = "sent"
        /\ \/ /\ d \in Domains \ reserved
              /\ reserved' = reserved \cup {d}
              /\ launches' = [launches EXCEPT ![i].pc = "created"]
           \/ /\ launches' = [launches EXCEPT ![i].pc = "refused"]
              /\ UNCHANGED reserved
        /\ UNCHANGED <<step, shown, props, form, check, raced>>

Answered(i) == launches' = [launches EXCEPT ![i].pc = "answered"]

Succeeds(i) == launches[i].pc = "created"

\* response.ok: the result and the next step.
Success(i) ==
    /\ Succeeds(i)
    /\ result' = launches[i].domain /\ step' = NextStep(step) /\ isLoading' = FALSE
    /\ Answered(i)
    /\ UNCHANGED <<shown, domain, check, reserved, raced>>
    /\ Rendered

\* An alert: a refusal, or no answer at all, whatever the server did.
Failure(i) ==
    /\ launches[i].pc # "answered" /\ isLoading' = FALSE
    /\ Answered(i)
    /\ UNCHANGED <<step, shown, domain, result, check, reserved, raced>>
    /\ Rendered

Next ==
    \/ Open \/ Close \/ ExitComplete
    \/ \E d \in Fields : Type(d)
    \/ CheckAnswer \/ Continue \/ Back \/ LaunchStore
    \/ \E i \in DOMAIN launches : Serve(i) \/ Success(i) \/ Failure(i)

Spec == Init /\ [][Next]_vars

-----------------------------------------------------------------------------
(* Properties.                                                             *)

\* Every variable holds a value of its kind.
TypeOK ==
    /\ step \in Steps /\ shown \in Steps \cup {0}
    /\ props \in Props
    /\ domain \in Fields /\ result \in Fields /\ isLoading \in BOOLEAN
    /\ isTaken \in BOOLEAN /\ checks \in 0 .. MaxChecks
    /\ launches \in Seq(Launch) /\ reserved \subseteq Domains
    /\ raced \in BOOLEAN

Awaited == {i \in DOMAIN launches : launches[i].pc # "answered"}

\* As long as no button of a step already left was pressed, the dialog never has two
\* quick-starts under way, closed and opened again as often as the user likes, and
\* its last step stands for a store the server has, under the domain of the form.
DialogIsHonest ==
    ~raced => /\ Cardinality(Awaited) <= 1
              /\ step = 4 => result = domain /\ result \in reserved

\* The last step, "Your store is ready!", is reached only with a result.
SuccessHasAResult == step = 4 => result # NoDomain
=============================================================================
