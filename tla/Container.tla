----------------------------- MODULE Container -----------------------------
(***************************************************************************)
(* The dependency injection container of src/di.ts: register() and         *)
(* resolve() with the calls of instantiate() behind it.  A call resolves   *)
(* one dependency after the other; up to its first await it runs at once,  *)
(* and so do the calls it makes, and only when they return is the promise  *)
(* of a singleton stored.  A call is a task, and the promise it returns.   *)
(***************************************************************************)
EXTENDS Integers, SequencesExt

CONSTANTS
  Token,      \* injection tokens
  Configs,    \* what may be registered: each token's [scope, inject, gives]
  Late,       \* tokens registered later than the rest, and again
  Resolver,   \* callers of resolve()
  MaxCalls,   \* bound on the calls of instantiate() when resolve() is called
  MaxDepth,   \* depth at which the stack overflows, above any acyclic one
  MaxVersion  \* bound on the registrations of such a token

VARIABLES
  config,    \* what each token is registered as
  version,   \* registrations of each token; 0 when it has none
  instance,  \* provider.instance: the call that made it, 0 for undefined
  promise,   \* provider.instancePromise: a call, or 0
  call,      \* the calls of instantiate() so far
  stack,     \* those that are running, the innermost last
  asked      \* the call each caller of resolve() awaits; 0 before, Done after

diVars == <<config, version, instance, promise, call, stack, asked>>

Init ==
  /\ config \in Configs
  /\ version = [t \in Token |-> IF t \in Late THEN 0 ELSE 1]
  /\ instance = [t \in Token |-> 0] /\ promise = [t \in Token |-> 0]
  /\ call = <<>> /\ stack = <<>>
  /\ asked = [r \in Resolver |-> 0]

Done == -1
Idle == stack = <<>>
Singleton(t) == config[t].scope = "singleton"
\* resolve() has the value, or the promise to await.
Ready(t) == config[t].gives = "value" \/ (Singleton(t) /\ instance[t] # 0)
Joins(t) == Singleton(t) /\ promise[t] # 0

New(t) == [token |-> t, version |-> version[t], next |-> 1, on |-> 0, at |-> "running"]
Top == Last(stack)
Deps(i) == config[call[i].token].inject

\* register(): a new provider replaces the old one, which calls still hold.
Register(t) ==
  /\ Idle /\ t \in Late /\ version[t] < MaxVersion
  /\ version' = [version EXCEPT ![t] = @ + 1]
  /\ instance' = [instance EXCEPT ![t] = 0] /\ promise' = [promise EXCEPT ![t] = 0]
  /\ UNCHANGED <<config, call, stack, asked>>

\* resolve(), called by the application; without a provider it throws, and a
\* value or an instance is returned at once.
Resolve(r, t) ==
  /\ Idle /\ asked[r] = 0 /\ version[t] # 0 /\ ~ Ready(t)
  /\ IF Joins(t)
     THEN asked' = [asked EXCEPT ![r] = promise[t]] /\ UNCHANGED <<call, stack>>
     ELSE /\ Len(call) < MaxCalls
          /\ call' = Append(call, New(t)) /\ stack' = <<Len(call')>>
          /\ asked' = [asked EXCEPT ![r] = Len(call')]
  /\ UNCHANGED <<config, version, instance, promise>>

\* Where the calls are that began in this step of the event loop; the outermost
\* may be one that goes on.
Started == {n \in DOMAIN stack : n = 1 => call[stack[1]].next = 1}

\* The calls return their promises, the innermost first, and resolve() stores
\* those of singletons.
PromisesLost == promise

Promises ==
  [t \in Token |->
     LET mine == {n \in Started : call[stack[n]].token = t}
     IN IF mine = {} \/ ~ Singleton(t) THEN promise[t]
        ELSE stack[CHOOSE n \in mine : \A m \in mine : n <= m]]

Return(at) ==
  /\ call' = [call EXCEPT ![Top].at = at]
  /\ stack' = <<>> /\ promise' = Promises
  /\ UNCHANGED <<config, version, instance, asked>>

\* instantiate() runs to its next await: a dependency is at hand, promised, or
\* in turn instantiated; with all of them the class or factory is called.
Run ==
  /\ ~ Idle
  /\ LET d == Deps(Top)[call[Top].next] IN
     IF Len(stack) > MaxDepth
     THEN /\ call' = [i \in DOMAIN call |-> IF i \in ToSet(stack) THEN [call[i] EXCEPT !.at = "failed"]
                                                               ELSE call[i]]
          /\ stack' = <<>> /\ promise' = Promises
          /\ UNCHANGED <<config, version, instance, asked>>
     ELSE IF call[Top].next > Len(Deps(Top)) THEN Return("making")
     ELSE IF version[d] = 0 THEN Return("failed")
     ELSE IF Ready(d) THEN Return("waiting")
     ELSE IF Joins(d)
     THEN /\ call' = [call EXCEPT ![Top].at = "waiting", ![Top].on = promise[d]]
          /\ stack' = <<>> /\ promise' = Promises
          /\ UNCHANGED <<config, version, instance, asked>>
     ELSE /\ call' = Append([call EXCEPT ![Top].at = "waiting", ![Top].on = Len(call) + 1], New(d))
          /\ stack' = Append(stack, Len(call'))
          /\ UNCHANGED <<config, version, instance, promise, asked>>

\* The class is constructed, or the factory settles.
Make(i) ==
  /\ Idle /\ call[i].at = "making"
  /\ \E end \in {"made", "failed"} : call' = [call EXCEPT ![i].at = end]
  /\ UNCHANGED <<config, version, instance, promise, stack, asked>>

\* resolve() goes on after its await: it keeps what a singleton's call made and
\* drops the promise; a rejected one is kept.
Keep(i) ==
  LET t == call[i].token IN
  IF Singleton(t) /\ call[i].version = version[t]
  THEN /\ promise' = [promise EXCEPT ![t] = 0]
       /\ instance' = [instance EXCEPT ![t] = IF config[t].gives = "undefined" THEN 0 ELSE i]
  ELSE UNCHANGED <<promise, instance>>

Resume(i) ==
  LET on == call[i].on IN
  /\ Idle /\ call[i].at = "waiting"
  /\ on # 0 => call[on].at \in {"made", "failed"}
  /\ IF on # 0 /\ call[on].at = "failed"
     THEN /\ call' = [call EXCEPT ![i].at = "failed"]
          /\ UNCHANGED <<promise, instance, stack>>
     ELSE /\ call' = [call EXCEPT ![i].at = "running", ![i].on = 0, ![i].next = @ + 1]
          /\ stack' = <<i>>
          /\ IF on = 0 THEN UNCHANGED <<promise, instance>> ELSE Keep(on)
  /\ UNCHANGED <<config, version, asked>>

\* The application's resolve() goes on.
AnsweredIfMade(r) ==
  LET on == asked[r] IN
  /\ Idle /\ on \in DOMAIN call /\ call[on].at = "made"
  /\ Keep(on)
  /\ asked' = [asked EXCEPT ![r] = Done]
  /\ UNCHANGED <<config, version, call, stack>>

Answered(r) ==
  LET on == asked[r] IN
  /\ Idle /\ on \in DOMAIN call /\ call[on].at \in {"made", "failed"}
  /\ IF call[on].at = "made" THEN Keep(on) ELSE UNCHANGED <<promise, instance>>
  /\ asked' = [asked EXCEPT ![r] = Done]
  /\ UNCHANGED <<config, version, call, stack>>

Progress ==
  \/ Run
  \/ \E i \in DOMAIN call : Make(i) \/ Resume(i)
  \/ \E r \in Resolver : Answered(r)

Next ==
  \/ Progress
  \/ \E t \in Token : Register(t) \/ \E r \in Resolver : Resolve(r, t)

Spec == Init /\ [][Next]_diVars
\* Constructors and factories settle, and the event loop runs what is ready.
FairSpec == Spec /\ WF_diVars(Progress)

-----------------------------------------------------------------------------
Cyclic ==
  \E S \in (SUBSET Token) \ {{}} :
    \A t \in S : config[t].gives # "value" /\ ToSet(config[t].inject) \cap S # {}

\* One registration of a singleton is made once, whoever asks for it while it
\* is made, in whatever order they go on, and however dependencies share it;
\* one whose factory gives undefined is the exception.
MadeOnce ==
  \A i, j \in DOMAIN call :
    LET t == call[i].token IN
    (/\ i < j /\ call[j].token = t /\ call[j].version = call[i].version
     /\ Singleton(t) /\ config[t].gives # "undefined")
      => "made" \notin {call[i].at, call[j].at} /\ Cyclic

\* Every resolve() settles unless the providers depend on each other in a
\* cycle, though factories fail and registrations are replaced meanwhile.
ResolvesSettle ==
  ~ Cyclic /\ (\E r \in Resolver : asked[r] > 0)
    ~> (\A r \in Resolver : asked[r] <= 0)
=============================================================================
