-------------------------- MODULE IdentityProofs --------------------------
(***************************************************************************)
(* Proofs about the identity stages of the Tamoss controller, for any      *)
(* number of instances that share the Authentik, any spec contents, any    *)
(* number of generations and of faults: what a finished clean-up leaves,   *)
(* what the updates of the shared outpost keep, and what a ready condition *)
(* means.                                                                  *)
(***************************************************************************)
EXTENDS Identity, TLAPS

\* The stages of a pass that serves an instance, and of its clean-up.
Serving == {"blueprint", "apply", "proxy", "reapply", "app", "put", "status"}
Cleaning == {"fproxy", "fput", "fapp", "fprovider", "fblueprint", "release"}

\* Provider keys, and those the providers of an instance may have.
Keys == {NoPk, Foreign} \cup (Instances \X (Nat \ {0}))
KeysOf(i) == {NoPk} \cup ({i} \X (Nat \ {0}))

SpecObjects == [exists : BOOLEAN, deleting : BOOLEAN, gen : Nat, rev : Revs \cup {0}]
Conditions(r) == [result : {r}, gen : Nat, old : BOOLEAN]
Renderings == [rev : Revs \cup {0}, creds : Nat]
Outs == {"none", "fatal", "retryable", "blocked", "unmanaged", "applied"}
BlueprintStatuses == {"none", "unknown", "successful", "error"}
Blueprints == [content : Renderings, status : BlueprintStatuses, applied : BOOLEAN]
ProxyProviders == [pk : Keys, host : Revs \cup {0}]
Applications == [exists : BOOLEAN, pk : Keys]
Passes == [at : Serving \cup Cleaning \cup {"idle"}, i : Instances \cup {"none"},
           s : SpecObjects, content : Renderings, status : BlueprintStatuses \cup {"reapplied"},
           pk : Keys, seen : SUBSET Keys, out : Outs, fresh : BOOLEAN]

\* What the objects and the pass are made of.  Nobody has the key of somebody
\* else's provider.
Shape ==
    /\ spec \in [Instances -> SpecObjects]
    /\ cond = [i \in Instances |-> cond[i]]
    /\ \A i \in Instances : cond[i] \in Conditions(cond[i].result)
    /\ creds \in [Instances -> Nat] /\ made \in [Instances -> Nat]
    /\ bp \in [Instances -> Blueprints] /\ queue \subseteq Instances
    /\ oauth \in [Instances -> Renderings]
    /\ proxy \in [Instances -> ProxyProviders] /\ app \in [Instances -> Applications]
    /\ outpost \subseteq Keys /\ pks \in [Instances -> Nat]
    /\ pass \in Passes
    /\ pass.at # "idle" => pass.i \in Instances
    /\ pass.at = "status" => pass.out # "none"
    /\ \A i \in Instances : proxy[i].pk \in KeysOf(i)
    /\ pass.pk \in KeysOf(pass.i)

\* What a pass knows of its instance.  One that serves it read the spec before it
\* was edited or deleted; one that cleans up has the spec as it is.
Current ==
    pass.at # "idle" =>
        /\ spec[pass.i].exists
        /\ pass.at \in Cleaning =>
              pass.s = spec[pass.i] /\ spec[pass.i].deleting /\ ~pass.fresh

\* A provider without a key does not exist.
NoKey == \A i \in Instances : proxy[i].pk = NoPk => proxy[i] = NoProxy

Removed(i) == proxy[i] = NoProxy /\ app[i] = NoApp
Unrendered(i) == bp[i] = NoBlueprint /\ i \notin queue

\* How far a clean-up that gave nothing up has come.
Cleaned ==
    pass.i \notin skipped =>
        /\ pass.at \in {"fput", "fapp", "fprovider"} =>
              proxy[pass.i] = NoProxy \/ proxy[pass.i].pk = pass.pk
        /\ pass.at = "fprovider" => app[pass.i] = NoApp
        /\ pass.at = "fblueprint" => Removed(pass.i)
        /\ pass.at = "release" => Removed(pass.i) /\ Unrendered(pass.i)

Left == \A i \in Instances \ skipped : ~spec[i].exists => Removed(i) /\ Unrendered(i)

Disposal == Shape /\ Current /\ NoKey /\ Cleaned /\ Left

\* A pass whose instance nobody interferes with puts a provider into the outpost
\* that is the instance's and is not there yet.
Adding ==
    /\ pass.at = "app" /\ pass.fresh => proxy[pass.i].pk = pass.pk
    /\ pass.at = "put" /\ pass.fresh => proxy[pass.i].pk = pass.pk /\ pass.pk \notin outpost

\* Generations: a condition is never ahead of the spec, and a pass that serves an
\* earlier spec than the current one is behind it or meets a deletion.
Generations ==
    /\ \A i \in Instances : cond[i].gen <= spec[i].gen
    /\ pass.at # "idle" =>
          cond[pass.i].gen <= pass.s.gen /\ pass.s.gen <= spec[pass.i].gen
    /\ pass.at \in Serving =>
          /\ ~pass.s.deleting
          /\ pass.s = spec[pass.i] \/ spec[pass.i].deleting \/ pass.s.gen < spec[pass.i].gen
          /\ pass.fresh \/ pass.i \in tampered

\* The pass serves the current spec of an instance nobody interferes with.
Vouches == pass.at \in Serving /\ pass.fresh /\ pass.s = spec[pass.i]

Rendered(i) == creds[i] # 0 /\ bp[i].content = RenderBlueprint(spec[i].rev, creds[i])
Hosted(i) == proxy[i].pk # NoPk /\ proxy[i].host = spec[i].rev
Protected(i) ==
    Hosted(i) /\ app[i] = [exists |-> TRUE, pk |-> proxy[i].pk] /\ proxy[i].pk \in outpost

\* What such a pass has established so far.
Established ==
    Vouches =>
        /\ pass.at = "blueprint" =>
              /\ creds[pass.i] # 0
              /\ pass.content = RenderBlueprint(spec[pass.i].rev, creds[pass.i])
        /\ pass.at \in {"apply", "proxy", "reapply", "app", "put"} => Rendered(pass.i)
        /\ pass.at \in {"app", "put"} => Hosted(pass.i)
        /\ pass.at = "put" => app[pass.i] = [exists |-> TRUE, pk |-> pass.pk]
        /\ pass.at = "status" /\ pass.out = "applied" =>
              /\ Rendered(pass.i)
              /\ ForwardAuthRequired(spec[pass.i].rev) => Protected(pass.i)

\* Authentik has applied a Blueprint, has it in its queue, failed on it, or the
\* OAuth2 provider is missing.
Works(i) ==
    /\ bp[i].status = "none" => bp[i].content = NoContent
    /\ \/ bp[i].status = "none" \/ oauth[i] \in {NoContent, bp[i].content}
       \/ i \in queue \/ bp[i].status = "error"

Working == \A i \in Instances : Works(i)

\* The copy of the outpost that is written back holds everybody else's provider.
Seen == pass.at \in {"put", "fput"} => outpost \ {Foreign} \subseteq pass.seen

Vouched(i) == Rendered(i) /\ (ForwardAuthRequired(spec[i].rev) => Protected(i))

Promised == \A i \in Instances : Ready(i) => Vouched(i) /\ oauth[i] # NoContent

Faithful == Generations /\ Established /\ Working /\ Seen /\ Promised

-----------------------------------------------------------------------------
(* Records and keys.                                                       *)

LEMMA Nothing ==
    /\ NoSpec \in SpecObjects /\ NoCond \in Conditions(NoCond.result) /\ NoContent \in Renderings
    /\ NoBlueprint \in Blueprints /\ NoPk \in Keys
    /\ NoProxy \in ProxyProviders /\ NoApp \in Applications
    /\ Idle \in Passes /\ Idle.at = "idle" /\ Idle.pk = NoPk /\ ~Idle.fresh
<1>1. NoPk \in Keys
  BY Zenon DEF Keys
<1>2. NoSpec \in SpecObjects /\ NoContent \in Renderings
  BY DEF NoSpec, SpecObjects, NoContent, Renderings
<1>3. NoCond \in Conditions(NoCond.result)
  BY DEF NoCond, Conditions
<1>4. NoBlueprint \in Blueprints
  BY <1>2 DEF NoBlueprint, Blueprints, BlueprintStatuses
<1>5. NoProxy \in ProxyProviders /\ NoApp \in Applications
  BY <1>1 DEF NoProxy, ProxyProviders, NoApp, Applications
<1>6. Idle \in Passes /\ Idle.at = "idle" /\ Idle.pk = NoPk /\ ~Idle.fresh
  BY <1>1, <1>2, Zenon DEF Idle, Passes, Outs, BlueprintStatuses
<1> QED
  BY <1>1, <1>2, <1>3, <1>4, <1>5, <1>6, Zenon

\* The ways a pass moves on.
GoTo(x, at) == [x EXCEPT !.at = at]
WithStatus(x, st) == [x EXCEPT !.at = "proxy", !.status = st, !.content = NoContent]
WithKey(x, k) == [x EXCEPT !.at = "app", !.pk = k]
WithSeen(x, seen) == [x EXCEPT !.seen = seen, !.at = "put"]
WithFound(x, k, seen, at) == [x EXCEPT !.pk = k, !.seen = seen, !.at = at]
Stale(x) == [x EXCEPT !.fresh = FALSE]

LEMMA GoFields ==
    ASSUME NEW x \in Passes, NEW at \in Serving \cup Cleaning
    PROVE  LET y == GoTo(x, at) IN
           /\ y \in Passes /\ y.at = at /\ y.i = x.i /\ y.s = x.s /\ y.fresh = x.fresh
           /\ y.pk = x.pk /\ y.seen = x.seen /\ y.content = x.content /\ y.out = x.out
           /\ y.status = x.status
  BY Zenon DEF Passes, GoTo

LEMMA StatusFields ==
    ASSUME NEW x \in Passes, NEW st \in BlueprintStatuses \cup {"reapplied"}
    PROVE  LET y == WithStatus(x, st) IN
           /\ y \in Passes /\ y.at = "proxy" /\ y.i = x.i /\ y.s = x.s /\ y.fresh = x.fresh
           /\ y.pk = x.pk /\ y.out = x.out
<1> DEFINE y == WithStatus(x, st)
           u == [x EXCEPT !.at = "proxy"]
           v == [u EXCEPT !.status = st]
<1>1. "proxy" \in Serving \cup Cleaning
  BY Zenon DEF Serving
<1>2. u \in Passes /\ u.at = "proxy" /\ u.i = x.i /\ u.s = x.s /\ u.fresh = x.fresh
      /\ u.pk = x.pk /\ u.out = x.out
  BY <1>1, Zenon DEF Passes
<1>3. y = [v EXCEPT !.content = NoContent]
  BY Zenon DEF Passes, WithStatus
<1> HIDE DEF u
<1>4. v \in Passes /\ v.at = u.at /\ v.i = u.i /\ v.s = u.s /\ v.fresh = u.fresh
      /\ v.pk = u.pk /\ v.out = u.out
  BY <1>2, Zenon DEF Passes
<1> HIDE DEF v
<1>5. y \in Passes /\ y.at = v.at /\ y.i = v.i /\ y.s = v.s /\ y.fresh = v.fresh
      /\ y.pk = v.pk /\ y.out = v.out
  BY <1>3, <1>4, Nothing, Zenon DEF Passes
<1> QED
  BY <1>2, <1>4, <1>5, Zenon

LEMMA KeyFields ==
    ASSUME NEW x \in Passes, NEW k \in Keys
    PROVE  LET y == WithKey(x, k) IN
           /\ y \in Passes /\ y.at = "app" /\ y.i = x.i /\ y.s = x.s /\ y.fresh = x.fresh
           /\ y.pk = k /\ y.out = x.out
<1> DEFINE y == WithKey(x, k)
           u == [x EXCEPT !.at = "app"]
<1>1. "app" \in Serving \cup Cleaning
  BY Zenon DEF Serving
<1>2. u \in Passes /\ u.at = "app" /\ u.i = x.i /\ u.s = x.s /\ u.fresh = x.fresh
      /\ u.out = x.out
  BY <1>1, Zenon DEF Passes
<1>3. y = [u EXCEPT !.pk = k]
  BY Zenon DEF Passes, WithKey
<1> HIDE DEF u
<1> QED
  BY <1>2, <1>3, ZenonT(40) DEF Passes

LEMMA SeenFields ==
    ASSUME NEW x \in Passes, NEW seen \in SUBSET Keys
    PROVE  LET y == WithSeen(x, seen) IN
           /\ y \in Passes /\ y.at = "put" /\ y.i = x.i /\ y.s = x.s /\ y.fresh = x.fresh
           /\ y.pk = x.pk /\ y.seen = seen /\ y.out = x.out
<1> DEFINE y == WithSeen(x, seen)
           u == [x EXCEPT !.at = "put"]
<1>1. "put" \in Serving \cup Cleaning
  BY Zenon DEF Serving
<1>2. u \in Passes /\ u.at = "put" /\ u.i = x.i /\ u.s = x.s /\ u.fresh = x.fresh
      /\ u.pk = x.pk /\ u.out = x.out
  BY <1>1, Zenon DEF Passes
<1>3. y = [u EXCEPT !.seen = seen]
  BY Zenon DEF Passes, WithSeen
<1> HIDE DEF u
<1> QED
  BY <1>2, <1>3, ZenonT(40) DEF Passes

LEMMA FoundFields ==
    ASSUME NEW x \in Passes, NEW k \in Keys, NEW seen \in SUBSET Keys,
           NEW at \in Serving \cup Cleaning
    PROVE  LET y == WithFound(x, k, seen, at) IN
           /\ y \in Passes /\ y.at = at /\ y.i = x.i /\ y.s = x.s /\ y.fresh = x.fresh
           /\ y.pk = k /\ y.seen = seen
<1> DEFINE y == WithFound(x, k, seen, at)
           u == [x EXCEPT !.pk = k]
<1>1. u \in Passes /\ u.i = x.i /\ u.s = x.s /\ u.fresh = x.fresh /\ u.pk = k
  BY Zenon DEF Passes
<1> DEFINE v == [u EXCEPT !.seen = seen]
<1>2. y = [v EXCEPT !.at = at]
  BY Zenon DEF Passes, WithFound
<1> HIDE DEF u
<1>3. /\ v \in Passes /\ v.i = u.i /\ v.s = u.s /\ v.fresh = u.fresh /\ v.pk = u.pk
      /\ v.seen = seen
  BY <1>1, Zenon DEF Passes
<1> HIDE DEF v
<1>4. /\ y \in Passes /\ y.at = at /\ y.i = v.i /\ y.s = v.s /\ y.fresh = v.fresh
      /\ y.pk = v.pk /\ y.seen = v.seen
  BY <1>2, <1>3, ZenonT(40) DEF Passes
<1> QED
  BY <1>1, <1>3, <1>4, Zenon

LEMMA StaleFields ==
    ASSUME NEW x \in Passes
    PROVE  LET y == Stale(x) IN
           /\ y \in Passes /\ y.at = x.at /\ y.i = x.i /\ y.s = x.s /\ ~y.fresh
           /\ y.pk = x.pk /\ y.seen = x.seen /\ y.content = x.content /\ y.out = x.out
           /\ ~x.fresh => y = x
  BY Zenon DEF Passes, Stale

\* What Report leaves of a pass.
LEMMA ReportFields ==
    ASSUME Shape, NEW out \in Outs, Report(out)
    PROVE  /\ pass' \in Passes /\ pass'.at = "status" /\ pass'.i = pass.i /\ pass'.s = pass.s
           /\ pass'.fresh = pass.fresh /\ pass'.pk = NoPk /\ pass'.out = out
<1>1. pass' = [at |-> "status", i |-> pass.i, s |-> pass.s, content |-> NoContent,
               status |-> "none", pk |-> NoPk, seen |-> {}, out |-> out,
               fresh |-> pass.fresh]
  BY Zenon DEF Report, Idle
<1>2. /\ pass.i \in Instances \cup {"none"} /\ pass.s \in SpecObjects
      /\ pass.fresh \in BOOLEAN
  BY Zenon DEF Shape, Passes
<1> QED
  BY <1>1, <1>2, Nothing, Zenon DEF Passes, Serving, BlueprintStatuses

\* A pass goes on with the same instance, spec and vouching.
Onward ==
    /\ pass' \in Passes /\ pass'.i = pass.i /\ pass'.s = pass.s /\ pass'.fresh = pass.fresh
    /\ pass'.at = "status" => pass'.out # "none"

\* A call that failed ends the pass.
LEMMA FailedFields ==
    ASSUME Shape, Failed
    PROVE  Onward /\ pass'.at = "status" /\ pass'.pk = NoPk /\ pass'.out # "applied"
<1>1. PICK out \in {"fatal", "retryable"} : Report(out)
  BY Zenon DEF Failed
<1>2. out \in Outs /\ out # "applied" /\ out # "none"
  BY Zenon DEF Outs
<1> QED
  BY <1>1, <1>2, ReportFields, Zenon DEF Onward

\* Keys tell instances apart, and none of theirs is somebody else's.
LEMMA KeysDiffer ==
    /\ \A i, j \in Instances, k \in Keys : k \in KeysOf(i) /\ k \in KeysOf(j) /\ i # j => k = NoPk
    /\ \A i \in Instances : Foreign \notin KeysOf(i)
    /\ \A i \in Instances, n \in Nat : <<i, n + 1>> \in KeysOf(i) /\ <<i, n + 1>> # NoPk
<1>1. \A i, j \in Instances, k \in Keys :
         k \in KeysOf(i) /\ k \in KeysOf(j) /\ i # j => k = NoPk
  BY DEF KeysOf
<1>2. \A i \in Instances : Foreign \notin KeysOf(i)
  BY ConstantsAssumption DEF KeysOf, Foreign, NoPk
<1>3. \A i \in Instances, n \in Nat : <<i, n + 1>> \in KeysOf(i) /\ <<i, n + 1>> # NoPk
  BY DEF KeysOf, NoPk
<1> QED
  BY <1>1, <1>2, <1>3, Zenon

LEMMA KeysOfKeys == \A i \in Instances : KeysOf(i) \subseteq Keys
  BY DEF KeysOf, Keys

LEMMA GoEffect ==
    ASSUME Shape, NEW at \in Serving \cup Cleaning, at # "status", Go(at)
    PROVE  Onward /\ pass'.at = at /\ pass'.pk = pass.pk /\ pass'.seen = pass.seen
<1>1. pass' = GoTo(pass, at) /\ pass \in Passes
  BY Zenon DEF Go, GoTo, Shape
<1> QED
  BY <1>1, GoFields, ZenonT(40) DEF Onward

-----------------------------------------------------------------------------
(* What the steps of a pass that serves an instance do.                    *)

\* A step changes nothing in Authentik of an instance that is not its own, apart
\* from the outpost.
OnlyMine ==
    \A j \in Instances \ {pass.i} :
        /\ bp'[j] = bp[j] /\ proxy'[j] = proxy[j] /\ app'[j] = app[j]
        /\ j \in queue' <=> j \in queue

LEMMA StartEffect ==
    ASSUME Shape, NEW i \in Instances, Start(i)
    PROVE  /\ Shape' /\ pass.at = "idle" /\ spec[i].exists /\ ~spec[i].deleting
           /\ UNCHANGED <<spec, cond, authentik, tampered, skipped>>
           /\ pass'.i = i /\ pass'.s = spec[i] /\ pass'.fresh /\ pass'.pk = NoPk
           /\ pass'.at = "blueprint" =>
                 /\ creds'[i] # 0
                 /\ pass'.content = RenderBlueprint(spec[i].rev, creds'[i])
           /\ pass'.at \in {"blueprint", "status"} /\ pass'.out # "applied"
           /\ \A j \in Instances : creds[j] # 0 => creds'[j] = creds[j]
<1> DEFINE s == spec[i]
           managed == s.rev \notin NoAuth
           ready == managed /\ CheckPlatformNamespace(s.rev) /\ RedirectURIs(s.rev)
           generate == ready /\ secretData(creds[i])
           content == IF ready THEN RenderBlueprint(s.rev, creds'[i]) ELSE NoContent
           at == IF ready /\ ResolveAPIToken THEN "blueprint" ELSE "status"
           out == IF ~managed THEN "unmanaged"
                  ELSE IF ready /\ ResolveAPIToken THEN "none" ELSE "blocked"
<1>1. /\ pass.at = "idle" /\ s.exists /\ ~s.deleting
      /\ UNCHANGED <<spec, cond, authentik, tampered, skipped>>
      /\ made' = IF generate THEN [made EXCEPT ![i] = @ + 1] ELSE made
      /\ creds' = IF generate THEN [creds EXCEPT ![i] = made'[i]] ELSE creds
      /\ pass' = [Idle EXCEPT !.i = i, !.s = s, !.fresh = TRUE, !.content = content,
                              !.at = at, !.out = out]
  BY Zenon DEF Start, In
<1>2. /\ made' \in [Instances -> Nat] /\ creds' \in [Instances -> Nat]
      /\ \A j \in Instances : creds[j] # 0 => creds'[j] = creds[j]
      /\ ready => creds'[i] # 0
  <2> HIDE DEF ready
  <2>1. CASE generate
    BY <1>1, <2>1 DEF Shape, secretData
  <2>2. CASE ~generate
    BY <1>1, <2>2 DEF Shape, secretData
  <2> QED
    BY <2>1, <2>2, Zenon
<1>3. s \in SpecObjects /\ s.rev \in Revs \cup {0} /\ creds'[i] \in Nat
  BY <1>2, Zenon DEF Shape, SpecObjects
<1>4. content \in Renderings
  BY <1>3, Nothing DEF RenderBlueprint, blueprintEntries, Renderings
<1>5. /\ at \in {"blueprint", "status"} /\ out \in Outs /\ out # "applied"
      /\ at = "status" => out # "none"
  BY Zenon DEF Outs
<1>6. at = "blueprint" => ready
  BY Zenon
<1>7. ready => content = RenderBlueprint(s.rev, creds'[i])
  BY Zenon
<1> HIDE DEF content, at, out, ready, managed, generate, s
<1>8. pass' = [at |-> at, i |-> i, s |-> s, content |-> content, status |-> "none",
               pk |-> NoPk, seen |-> {}, out |-> out, fresh |-> TRUE]
  BY <1>1, Zenon DEF Idle
<1>9. /\ pass' \in Passes /\ pass'.i = i /\ pass'.s = s /\ pass'.fresh /\ pass'.pk = NoPk
      /\ pass'.at = at /\ pass'.content = content /\ pass'.out = out
  BY <1>3, <1>4, <1>5, <1>8, Nothing, Zenon DEF Passes, Serving, BlueprintStatuses
<1>10. Shape'
  BY <1>1, <1>2, <1>5, <1>9, Zenon DEF Shape, authentik, KeysOf
<1> QED
  BY <1>1, <1>2, <1>5, <1>6, <1>7, <1>9, <1>10, Zenon DEF s

\* Where Applied leads.
LEMMA AppliedFields ==
    ASSUME Shape, NEW st \in BlueprintStatuses \cup {"reapplied"}, Applied(st)
    PROVE  /\ Onward /\ pass'.pk \in KeysOf(pass.i)
           /\ \/ pass'.at = "proxy"
              \/ pass'.at = "status" /\ ~ForwardAuthRequired(pass.s.rev)
<1>1. CASE ForwardAuthRequired(pass.s.rev)
  <2>1. pass' = WithStatus(pass, st)
    BY <1>1, Zenon DEF Applied, WithStatus
  <2>2. pass \in Passes /\ pass.pk \in KeysOf(pass.i)
    BY Zenon DEF Shape
  <2> QED
    BY <2>1, <2>2, StatusFields, Zenon DEF Onward
<1>2. CASE ~ForwardAuthRequired(pass.s.rev)
  BY <1>2, ReportFields, Zenon DEF Applied, Outs, KeysOf, Onward
<1> QED
  BY <1>1, <1>2, Zenon

\* A write of the Blueprint leaves it as the pass rendered it and, when Authentik
\* applies what is saved, queued.
LEMMA BlueprintWriteEffect ==
    ASSUME Shape, BlueprintWrite
    PROVE  /\ Shape' /\ Onward /\ OnlyMine /\ pass.at = "blueprint"
           /\ UNCHANGED <<spec, cond, creds, oauth, proxy, app, outpost, tampered, skipped>>
           /\ \/ bp'[pass.i] = bp[pass.i] /\ queue' = queue
              \/ /\ bp'[pass.i].content = pass.content /\ bp'[pass.i].status # "none"
                 /\ bp[pass.i].content # pass.content
                 /\ ApplyOnSave => pass.i \in queue'
           /\ pass'.at \in {"apply", "proxy", "status"}
           /\ \/ pass'.at = "status" /\ pass'.out # "applied"
              \/ bp'[pass.i].content = pass.content
           /\ pass'.at = "status" /\ pass'.out = "applied" => ~ForwardAuthRequired(pass.s.rev)
<1> DEFINE i == pass.i
           b == bp[i]
           status == IF b.status = "none" THEN "unknown" ELSE b.status
           written == [b EXCEPT !.content = pass.content, !.status = status]
           write == Effective /\ ~managedBlueprintMatches(b, pass.content)
<1>1. /\ pass.at = "blueprint"
      /\ bp' = IF write THEN [bp EXCEPT ![i] = written] ELSE bp
      /\ queue' = IF write /\ ApplyOnSave THEN queue \cup {i} ELSE queue
      /\ UNCHANGED <<spec, cond, creds, made, oauth, proxy, app, outpost, pks, tampered,
                     skipped>>
      /\ \/ api # "up" /\ Failed
         \/ api = "up" /\ managedBlueprintMatches(b, pass.content) /\ Applied(b.status)
         \/ api = "up" /\ Go("apply")
  BY Zenon DEF BlueprintWrite, In, Quiet, upToDate
<1>2. i \in Instances /\ b \in Blueprints /\ pass.content \in Renderings
  BY <1>1, Zenon DEF Shape, Passes
<1>3. status \in BlueprintStatuses /\ status # "none"
  BY <1>2, Zenon DEF Blueprints, BlueprintStatuses
<1> HIDE DEF status
<1>4. written \in Blueprints /\ written.content = pass.content /\ written.status = status
  <2> DEFINE x == [b EXCEPT !.content = pass.content]
  <2>1. x \in Blueprints /\ x.content = pass.content
    BY <1>2, Zenon DEF Blueprints
  <2>2. written = [x EXCEPT !.status = status]
    BY <1>2, Zenon DEF Blueprints
  <2> HIDE DEF x
  <2> QED
    BY <1>3, <2>1, <2>2, Zenon DEF Blueprints
<1> HIDE DEF written
<1>5. /\ bp' \in [Instances -> Blueprints] /\ queue' \subseteq Instances
      /\ bp'[i] = IF write THEN written ELSE b
      /\ \A j \in Instances \ {i} : bp'[j] = bp[j] /\ (j \in queue' <=> j \in queue)
  BY <1>1, <1>2, <1>4, Zenon DEF Shape
<1>6. OnlyMine
  BY <1>1, <1>5, Zenon DEF OnlyMine
<1>7. api = "up" => bp'[i].content = pass.content
  BY <1>4, <1>5, Zenon DEF Effective, managedBlueprintMatches
<1>8. /\ Onward /\ pass'.pk \in KeysOf(i) /\ pass'.at \in {"apply", "proxy", "status"}
      /\ \/ pass'.at = "status" /\ pass'.out # "applied"
         \/ bp'[i].content = pass.content
      /\ pass'.at = "status" /\ pass'.out = "applied" => ~ForwardAuthRequired(pass.s.rev)
  <2>1. CASE Failed
    BY <2>1, FailedFields, Zenon DEF KeysOf
  <2>2. CASE api = "up" /\ Applied(b.status)
    <3>1. b.status \in BlueprintStatuses \cup {"reapplied"}
      BY <1>2, Zenon DEF Blueprints
    <3> QED
      BY <1>7, <2>2, <3>1, AppliedFields, Zenon
  <2>3. CASE api = "up" /\ Go("apply")
    <3>1. "apply" \in Serving \cup Cleaning /\ pass.pk \in KeysOf(i)
      BY Zenon DEF Shape, Serving
    <3>2. Onward /\ pass'.at = "apply" /\ pass'.pk = pass.pk
      BY <2>3, <3>1, GoEffect, Zenon
    <3> QED
      BY <1>7, <2>3, <3>1, <3>2, Zenon
  <2> QED
    BY <1>1, <2>1, <2>2, <2>3, Zenon
<1>9. Shape'
  BY <1>1, <1>2, <1>5, <1>8, Zenon DEF Shape, Onward
<1>10. \/ bp'[i] = b /\ queue' = queue
       \/ /\ bp'[i].content = pass.content /\ bp'[i].status # "none"
          /\ b.content # pass.content /\ (ApplyOnSave => i \in queue')
  <2>1. CASE write
    BY <1>1, <1>3, <1>4, <1>5, <2>1, Zenon DEF managedBlueprintMatches
  <2>2. CASE ~write
    BY <1>1, <1>5, <2>2, Zenon
  <2> QED
    BY <2>1, <2>2, Zenon
<1> QED
  BY <1>1, <1>6, <1>8, <1>9, <1>10, Zenon

\* The apply calls change the queue, and nothing else in Authentik.
LEMMA ApplyEffect ==
    ASSUME Shape, BlueprintApply \/ Reapply
    PROVE  /\ Shape' /\ Onward /\ OnlyMine /\ pass.at \in {"apply", "reapply"}
           /\ UNCHANGED <<spec, cond, creds, bp, oauth, proxy, app, outpost, tampered, skipped>>
           /\ queue \subseteq queue'
           /\ pass'.at \in {"proxy", "status"}
           /\ pass'.at = "status" /\ pass'.out = "applied" => ~ForwardAuthRequired(pass.s.rev)
<1>1. PICK stage \in {"apply", "reapply"}, st \in {bp[pass.i].status, "reapplied"} :
         Apply(stage, st)
  BY Zenon DEF BlueprintApply, Reapply
<1>2. /\ pass.at = stage
      /\ queue' \in {queue, queue \cup {pass.i}}
      /\ UNCHANGED <<spec, cond, creds, made, bp, oauth, proxy, app, outpost, pks, tampered,
                     skipped>>
      /\ Failed \/ Report("fatal") \/ Applied(st)
  BY <1>1, Zenon DEF Apply, In, Quiet
<1>3. pass.i \in Instances /\ bp[pass.i] \in Blueprints
  BY <1>2, Zenon DEF Shape
<1>4. st \in BlueprintStatuses \cup {"reapplied"}
  BY <1>3, Zenon DEF Blueprints
<1>5. /\ Onward /\ pass'.pk \in KeysOf(pass.i) /\ pass'.at \in {"proxy", "status"}
      /\ pass'.at = "status" /\ pass'.out = "applied" => ~ForwardAuthRequired(pass.s.rev)
  <2>1. CASE Failed
    BY <2>1, FailedFields, Zenon DEF KeysOf
  <2>2. CASE Report("fatal")
    BY <2>2, ReportFields, Zenon DEF KeysOf, Outs, Onward
  <2>3. CASE Applied(st)
    BY <1>4, <2>3, AppliedFields, Zenon
  <2> QED
    BY <1>2, <2>1, <2>2, <2>3, Zenon
<1>6. Shape'
  BY <1>2, <1>3, <1>5, Zenon DEF Shape, Onward
<1>7. OnlyMine
  BY <1>2, Zenon DEF OnlyMine
<1> QED
  BY <1>2, <1>5, <1>6, <1>7, Zenon

\* The proxy provider is left alone when it matches, and has the host of the
\* spec and a key when the pass goes on to the application.
LEMMA ProxyEffect ==
    ASSUME Shape, upsertProxyProvider
    PROVE  /\ Shape' /\ Onward /\ OnlyMine /\ pass.at = "proxy"
           /\ UNCHANGED <<spec, cond, creds, bp, queue, oauth, app, outpost, tampered, skipped>>
           /\ \/ proxy'[pass.i] = proxy[pass.i]
              \/ /\ ~proxyProviderMatches(proxy[pass.i], pass.s.rev)
                 /\ proxy'[pass.i].pk # NoPk /\ proxy'[pass.i].host = pass.s.rev
           /\ pass'.at \in {"app", "reapply", "status"}
           /\ pass'.at = "app" =>
                 /\ proxy'[pass.i].pk # NoPk /\ proxy'[pass.i].host = pass.s.rev
                 /\ pass'.pk = proxy'[pass.i].pk
           /\ pass'.at = "status" => pass'.out # "applied"
<1> DEFINE i == pass.i
           found == findOAuthProvider(i)
           valid == pass.s.rev \notin BadHost
           write == Effective /\ found /\ valid /\ ~proxyProviderMatches(proxy[i], pass.s.rev)
           create == write /\ proxy[i].pk = NoPk
           key == IF create THEN <<i, pks'[i]>> ELSE proxy[i].pk
           written == [pk |-> key, host |-> UIProxyExternalHost(pass.s.rev)]
<1>1. /\ pass.at = "proxy"
      /\ pks' = IF create THEN [pks EXCEPT ![i] = @ + 1] ELSE pks
      /\ proxy' = IF write THEN [proxy EXCEPT ![i] = written] ELSE proxy
      /\ UNCHANGED <<spec, cond, creds, made, bp, queue, oauth, app, outpost, tampered,
                     skipped>>
      /\ \/ Failed \/ Report("fatal") \/ Go("reapply")
         \/ /\ api = "up" /\ found /\ valid
            /\ pass' = [pass EXCEPT !.at = "app", !.pk = proxy'[i].pk]
  BY Zenon DEF upsertProxyProvider, In, Quiet
<1>2. /\ i \in Instances /\ proxy[i] \in ProxyProviders /\ proxy[i].pk \in KeysOf(i)
      /\ pass \in Passes /\ pass.s \in SpecObjects
  BY <1>1, Zenon DEF Shape, Passes
<1>3. pass.s.rev \in Revs \cup {0}
  BY <1>2, Zenon DEF SpecObjects
<1>4. pks' \in [Instances -> Nat] /\ (create => pks'[i] = pks[i] + 1 /\ pks[i] \in Nat)
  <2> HIDE DEF create
  <2> QED
    BY <1>1, <1>2 DEF Shape
<1>5. key \in KeysOf(i) /\ (write => key # NoPk)
  <2> HIDE DEF write, i
  <2>1. CASE create
    BY <1>2, <1>4, <2>1, KeysDiffer, Zenon
  <2>2. CASE ~create
    BY <1>2, <2>2, Zenon
  <2> QED
    BY <2>1, <2>2, Zenon
<1>6. key \in Keys
  BY <1>2, <1>5, KeysOfKeys, Zenon
<1> HIDE DEF key
<1>7. written \in ProxyProviders /\ written.pk = key /\ written.host = pass.s.rev
  BY <1>3, <1>6 DEF ProxyProviders, UIProxyExternalHost
<1> HIDE DEF written
<1>8. /\ proxy' \in [Instances -> ProxyProviders]
      /\ proxy'[i] = IF write THEN written ELSE proxy[i]
      /\ \A j \in Instances \ {i} : proxy'[j] = proxy[j]
  BY <1>1, <1>2, <1>7, Zenon DEF Shape
<1>9. \A j \in Instances : proxy'[j].pk \in KeysOf(j)
  BY <1>5, <1>7, <1>8, Zenon DEF Shape
<1>10. \/ proxy'[i] = proxy[i]
       \/ /\ ~proxyProviderMatches(proxy[i], pass.s.rev)
          /\ proxy'[i].pk # NoPk /\ proxy'[i].host = pass.s.rev
  BY <1>5, <1>7, <1>8, Zenon
<1>11. api = "up" /\ found /\ valid => proxy'[i].pk # NoPk /\ proxy'[i].host = pass.s.rev
  BY <1>5, <1>7, <1>8, Zenon DEF Effective, proxyProviderMatches, UIProxyExternalHost
<1>12. /\ Onward /\ pass'.pk \in KeysOf(i) /\ pass'.at \in {"app", "reapply", "status"}
       /\ pass'.at = "app" =>
             /\ proxy'[i].pk # NoPk /\ proxy'[i].host = pass.s.rev
             /\ pass'.pk = proxy'[i].pk
       /\ pass'.at = "status" => pass'.out # "applied"
  <2> HIDE DEF found, valid
  <2>1. CASE Failed
    BY <2>1, FailedFields, Zenon DEF KeysOf
  <2>2. CASE Report("fatal")
    BY <2>2, ReportFields, Zenon DEF KeysOf, Outs, Onward
  <2>3. CASE Go("reapply")
    <3>1. "reapply" \in Serving \cup Cleaning /\ pass.pk \in KeysOf(i)
      BY Zenon DEF Shape, Serving
    <3> QED
      BY <2>3, <3>1, GoEffect, Zenon
  <2>4. CASE /\ api = "up" /\ found /\ valid
             /\ pass' = [pass EXCEPT !.at = "app", !.pk = proxy'[i].pk]
    <3>1. proxy'[i].pk \in KeysOf(i) /\ proxy'[i].pk \in Keys
      BY <1>2, <1>9, KeysOfKeys, Zenon
    <3>2. pass' = WithKey(pass, proxy'[i].pk)
      BY <2>4, Zenon DEF WithKey
    <3>3. Onward /\ pass'.at = "app" /\ pass'.pk = proxy'[i].pk
      <4> DEFINE k == proxy'[i].pk
      <4>1. k \in Keys /\ pass' = WithKey(pass, k)
        BY <3>1, <3>2, Zenon
      <4> HIDE DEF k
      <4>2. Onward /\ pass'.at = "app" /\ pass'.pk = k
        BY <1>2, <4>1, KeyFields, Zenon DEF Onward
      <4> QED
        BY <4>2, Zenon DEF k
    <3> QED
      BY <1>11, <2>4, <3>1, <3>3, Zenon
  <2> QED
    BY <1>1, <2>1, <2>2, <2>3, <2>4, Zenon
<1>13. Shape'
  BY <1>1, <1>2, <1>4, <1>8, <1>9, <1>12, Zenon DEF Shape, Onward
<1>14. OnlyMine
  BY <1>1, <1>8, Zenon DEF OnlyMine
<1> QED
  BY <1>1, <1>10, <1>12, <1>13, <1>14, Zenon

\* The application serves the provider of the pass, which goes on to the outpost
\* when the provider is not there yet.
LEMMA ApplicationEffect ==
    ASSUME Shape, upsertProxyApplication
    PROVE  /\ Shape' /\ Onward /\ OnlyMine /\ pass.at = "app"
           /\ UNCHANGED <<spec, cond, creds, bp, queue, oauth, proxy, outpost, tampered,
                          skipped>>
           /\ app'[pass.i] \in {app[pass.i], [exists |-> TRUE, pk |-> pass.pk]}
           /\ pass'.at \in {"put", "status"}
           /\ pass'.at = "put" \/ pass'.out = "applied" =>
                 app'[pass.i] = [exists |-> TRUE, pk |-> pass.pk]
           /\ pass'.at = "put" =>
                 pass'.pk = pass.pk /\ pass'.seen = outpost /\ pass.pk \notin outpost
           /\ pass'.at = "status" /\ pass'.out = "applied" => pass.pk \in outpost
<1> DEFINE i == pass.i
           known == pass.pk \in Providers
           served == [exists |-> TRUE, pk |-> pass.pk]
<1>1. /\ pass.at = "app"
      /\ app' = IF Effective /\ known THEN [app EXCEPT ![i] = served] ELSE app
      /\ UNCHANGED <<spec, cond, creds, made, bp, queue, oauth, proxy, outpost, pks, tampered,
                     skipped>>
      /\ \/ Failed \/ Report("fatal")
         \/ api = "up" /\ known /\ pass.pk \in outpost /\ Report("applied")
         \/ /\ api = "up" /\ known /\ pass.pk \notin outpost
            /\ pass' = WithSeen(pass, outpost)
  BY Zenon DEF upsertProxyApplication, In, Quiet, WithSeen
<1>2. /\ i \in Instances /\ pass \in Passes /\ pass.pk \in Keys /\ outpost \in SUBSET Keys
      /\ pass.pk \in KeysOf(i)
  BY <1>1, Zenon DEF Shape, Passes
<1>3. served \in Applications
  BY <1>2 DEF Applications
<1> HIDE DEF known, served
<1>4. /\ app' \in [Instances -> Applications]
      /\ app'[i] = IF Effective /\ known THEN served ELSE app[i]
      /\ \A j \in Instances \ {i} : app'[j] = app[j]
  BY <1>1, <1>2, <1>3, Zenon DEF Shape
<1>5. /\ Onward /\ pass'.pk \in KeysOf(i) /\ pass'.at \in {"put", "status"}
      /\ pass'.at = "put" \/ pass'.out = "applied" => api = "up" /\ known
      /\ pass'.at = "put" =>
            pass'.pk = pass.pk /\ pass'.seen = outpost /\ pass.pk \notin outpost
      /\ pass'.at = "status" /\ pass'.out = "applied" => pass.pk \in outpost
  <2>1. CASE Failed
    BY <2>1, FailedFields, Zenon DEF KeysOf
  <2>2. CASE Report("fatal")
    BY <2>2, ReportFields, Zenon DEF KeysOf, Outs, Onward
  <2>3. CASE api = "up" /\ known /\ pass.pk \in outpost /\ Report("applied")
    BY <2>3, ReportFields, Zenon DEF KeysOf, Outs, Onward
  <2>4. CASE api = "up" /\ known /\ pass.pk \notin outpost /\ pass' = WithSeen(pass, outpost)
    BY <1>2, <2>4, SeenFields, ZenonT(40) DEF Onward
  <2> QED
    BY <1>1, <2>1, <2>2, <2>3, <2>4, Zenon
<1>6. Shape'
  BY <1>1, <1>2, <1>4, <1>5, Zenon DEF Shape, Onward
<1>7. OnlyMine
  BY <1>1, <1>4, Zenon DEF OnlyMine
<1>8. api = "up" /\ known => app'[i] = served
  BY <1>4, Zenon DEF Effective
<1> QED
  BY <1>1, <1>4, <1>5, <1>6, <1>7, <1>8, Zenon DEF served

\* The outpost is written back with the provider of the pass, or not at all.
LEMMA OutpostEffect ==
    ASSUME Shape, addProviderToEmbeddedOutpost
    PROVE  /\ Shape' /\ Onward /\ OnlyMine /\ pass.at = "put" /\ pass'.at = "status"
           /\ UNCHANGED <<spec, cond, creds, bp, queue, oauth, proxy, app, tampered, skipped>>
           /\ outpost' \in {outpost, pass.seen \cup {pass.pk}}
           /\ pass'.out = "applied" => outpost' = pass.seen \cup {pass.pk}
<1> DEFINE providers == appendProvider(pass.seen, pass.pk)
           known == providers \subseteq Providers
<1>1. /\ pass.at = "put"
      /\ outpost' = IF Effective /\ known THEN providers ELSE outpost
      /\ UNCHANGED <<spec, cond, creds, made, bp, queue, oauth, proxy, app, pks, tampered,
                     skipped>>
      /\ Failed \/ Report("fatal") \/ (api = "up" /\ known /\ Report("applied"))
  BY Zenon DEF addProviderToEmbeddedOutpost, In, Quiet
<1>2. pass.i \in Instances /\ pass.pk \in Keys /\ pass.seen \subseteq Keys
  BY <1>1, Zenon DEF Shape, Passes
<1>3. providers = pass.seen \cup {pass.pk} /\ providers \subseteq Keys
  BY <1>2, Zenon DEF appendProvider
<1> HIDE DEF providers
<1>4. /\ Onward /\ pass'.pk = NoPk /\ pass'.at = "status"
      /\ pass'.out = "applied" => api = "up" /\ known
  <2>1. CASE Failed
    BY <2>1, FailedFields, Zenon
  <2>2. CASE Report("fatal")
    BY <2>2, ReportFields, Zenon DEF Outs, Onward
  <2>3. CASE api = "up" /\ known /\ Report("applied")
    BY <2>3, ReportFields, Zenon DEF Outs, Onward
  <2> QED
    BY <1>1, <2>1, <2>2, <2>3, Zenon
<1>5. Shape'
  BY <1>1, <1>2, <1>3, <1>4, Zenon DEF Shape, Onward, KeysOf
<1>6. OnlyMine
  BY <1>1, Zenon DEF OnlyMine
<1> QED
  BY <1>1, <1>3, <1>4, <1>5, <1>6, Zenon DEF Effective

-----------------------------------------------------------------------------
(* What the steps of a clean-up do.                                        *)

LEMMA FinalizeEffect ==
    ASSUME Shape, NEW i \in Instances, Finalize(i)
    PROVE  /\ Shape' /\ pass.at = "idle" /\ spec[i].exists /\ spec[i].deleting
           /\ UNCHANGED <<spec, cond, creds, authentik, tampered>>
           /\ pass'.i = i /\ pass'.s = spec[i] /\ ~pass'.fresh
           /\ \/ pass'.at = "fproxy" /\ skipped' = skipped
              \/ pass'.at = "release" /\ skipped' = skipped \cup {i}
<1> DEFINE at == IF spec[i].rev \notin NoAuth /\ ResolveAPIToken THEN "fproxy" ELSE "release"
<1>1. /\ pass.at = "idle" /\ spec[i].exists /\ spec[i].deleting
      /\ UNCHANGED <<spec, cond, creds, made, authentik, tampered>>
      /\ pass' = [Idle EXCEPT !.i = i, !.s = spec[i], !.at = at]
      /\ \/ at = "fproxy" /\ skipped' = skipped
         \/ at = "release" /\ skipped' = skipped \cup {i}
  BY Zenon DEF Finalize, In
<1>2. spec[i] \in SpecObjects /\ at \in Cleaning /\ at # "status"
  BY Zenon DEF Shape, Cleaning
<1> HIDE DEF at
<1>3. pass' = [at |-> at, i |-> i, s |-> spec[i], content |-> NoContent, status |-> "none",
               pk |-> NoPk, seen |-> {}, out |-> "none", fresh |-> FALSE]
  BY <1>1, Zenon DEF Idle
<1>4. /\ pass' \in Passes /\ pass'.i = i /\ pass'.s = spec[i] /\ pass'.at = at
      /\ pass'.fresh = FALSE /\ pass'.pk = NoPk
  BY <1>2, <1>3, Nothing, Zenon DEF Passes, Outs, BlueprintStatuses
<1>5. Shape'
  BY <1>1, <1>2, <1>4, Zenon DEF Shape, authentik, KeysOf
<1> QED
  BY <1>1, <1>4, <1>5, Zenon

\* A call of the clean-up leads on, or to the next half with the instance skipped.
LEMMA CleanEffect ==
    ASSUME Shape, NEW accepted \in BOOLEAN, NEW next \in Cleaning, NEW instead \in Cleaning,
           Clean(accepted, next, instead)
    PROVE  /\ Onward /\ pass'.pk = pass.pk /\ pass'.seen = pass.seen
           /\ UNCHANGED <<spec, cond, creds, made, tampered>>
           /\ \/ pass'.at = next /\ api = "up" /\ accepted /\ skipped' = skipped
              \/ pass'.at = instead /\ skipped' = skipped \cup {pass.i}
<1> DEFINE at == IF api = "up" /\ accepted THEN next ELSE instead
<1>1. /\ Go(at) /\ UNCHANGED <<spec, cond, creds, made, tampered>>
      /\ skipped' = IF api = "up" /\ accepted THEN skipped ELSE skipped \cup {pass.i}
      /\ at \in Serving \cup Cleaning /\ at # "status"
  BY Zenon DEF Clean, Cleaning
<1>2. \/ at = next /\ api = "up" /\ accepted
      \/ at = instead /\ ~(api = "up" /\ accepted)
  BY Zenon
<1> HIDE DEF at
<1>3. Onward /\ pass'.at = at /\ pass'.pk = pass.pk /\ pass'.seen = pass.seen
  BY <1>1, GoEffect, Zenon
<1> QED
  BY <1>1, <1>2, <1>3, Zenon

LEMMA FindEffect ==
    ASSUME Shape, FinalizeFind
    PROVE  /\ Shape' /\ Onward /\ pass.at = "fproxy"
           /\ UNCHANGED <<spec, cond, creds, authentik, tampered>>
           /\ \/ /\ pass'.at \in {"fput", "fapp"} /\ skipped' = skipped
                 /\ pass'.pk = proxy[pass.i].pk /\ pass'.seen = outpost
              \/ pass'.at = "fblueprint" /\ skipped' = skipped \cup {pass.i}
<1> DEFINE pk == proxy[pass.i].pk
           at == IF pk \in outpost THEN "fput" ELSE "fapp"
<1>1. /\ pass.at = "fproxy" /\ UNCHANGED <<spec, cond, creds, made, authentik, tampered>>
      /\ \/ pass' = WithFound(pass, pk, outpost, at) /\ skipped' = skipped
         \/ Go("fblueprint") /\ skipped' = skipped \cup {pass.i}
  BY Zenon DEF FinalizeFind, In, findProxyProvider, WithFound
<1>2. /\ pass.i \in Instances /\ pk \in Keys /\ pk \in KeysOf(pass.i) /\ pass \in Passes
      /\ outpost \in SUBSET Keys /\ at \in Serving \cup Cleaning /\ at # "status"
      /\ "fblueprint" \in Serving \cup Cleaning /\ pass.pk \in KeysOf(pass.i)
  BY <1>1, Zenon DEF Shape, ProxyProviders, Cleaning
<1>3. at \in {"fput", "fapp"}
  BY Zenon
<1> HIDE DEF pk, at
<1>4. CASE pass' = WithFound(pass, pk, outpost, at) /\ skipped' = skipped
  <2>1. Onward /\ pass'.at = at /\ pass'.pk = pk /\ pass'.seen = outpost
    <3> DEFINE y == WithFound(pass, pk, outpost, at)
    <3>1. /\ y \in Passes /\ y.at = at /\ y.i = pass.i /\ y.s = pass.s /\ y.fresh = pass.fresh
          /\ y.pk = pk /\ y.seen = outpost
      BY <1>2, FoundFields, SMT
    <3> QED
      BY <1>2, <1>4, <3>1, Zenon DEF Onward
  <2>2. Shape'
    BY <1>1, <1>2, <2>1, Zenon DEF Shape, Onward, authentik
  <2> QED
    BY <1>1, <1>3, <1>4, <2>1, <2>2, Zenon DEF pk
<1>5. CASE Go("fblueprint") /\ skipped' = skipped \cup {pass.i}
  <2>1. Onward /\ pass'.at = "fblueprint" /\ pass'.pk = pass.pk
    BY <1>2, <1>5, GoEffect, Zenon
  <2>2. Shape'
    BY <1>1, <1>2, <2>1, Zenon DEF Shape, Onward, authentik
  <2> QED
    BY <1>1, <1>5, <2>1, <2>2, Zenon
<1> QED
  BY <1>1, <1>4, <1>5, Zenon

LEMMA RemoveEffect ==
    ASSUME Shape, removeProviderFromEmbeddedOutpost
    PROVE  /\ Shape' /\ Onward /\ pass.at = "fput" /\ pass'.pk = pass.pk
           /\ UNCHANGED <<spec, cond, creds, bp, queue, oauth, proxy, app, tampered>>
           /\ outpost' \in {outpost, pass.seen \ {pass.pk}}
           /\ \/ pass'.at = "fapp" /\ skipped' = skipped
              \/ pass'.at = "fblueprint" /\ skipped' = skipped \cup {pass.i}
<1> DEFINE providers == removeProvider(pass.seen, pass.pk)
           known == providers \subseteq Providers
<1>1. /\ pass.at = "fput" /\ UNCHANGED <<bp, queue, oauth, proxy, app, pks>>
      /\ outpost' = IF Effective /\ known THEN providers ELSE outpost
      /\ Clean(known, "fapp", "fblueprint") /\ known \in BOOLEAN
  BY Zenon DEF removeProviderFromEmbeddedOutpost, In
<1>2. /\ providers = pass.seen \ {pass.pk} /\ pass.seen \subseteq Keys
      /\ "fapp" \in Cleaning /\ "fblueprint" \in Cleaning /\ pass.i \in Instances
  BY <1>1, Zenon DEF removeProvider, Shape, Passes, Cleaning
<1> HIDE DEF known, providers
<1>3. /\ Onward /\ pass'.pk = pass.pk /\ UNCHANGED <<spec, cond, creds, made, tampered>>
      /\ \/ pass'.at = "fapp" /\ skipped' = skipped
         \/ pass'.at = "fblueprint" /\ skipped' = skipped \cup {pass.i}
  BY <1>1, <1>2, CleanEffect, Zenon
<1>4. outpost' \in {outpost, pass.seen \ {pass.pk}} /\ outpost' \subseteq Keys
  BY <1>1, <1>2, Zenon DEF Shape
<1>5. Shape'
  BY <1>1, <1>2, <1>3, <1>4, Zenon DEF Shape, Onward
<1> QED
  BY <1>1, <1>3, <1>4, <1>5, Zenon

LEMMA DeleteApplicationEffect ==
    ASSUME Shape, deleteProxyApplication
    PROVE  /\ Shape' /\ Onward /\ OnlyMine /\ pass.at = "fapp" /\ pass'.pk = pass.pk
           /\ UNCHANGED <<spec, cond, creds, bp, queue, oauth, proxy, outpost, tampered>>
           /\ \/ /\ skipped' = skipped /\ app'[pass.i] = NoApp
                 /\ pass'.at = IF pass.pk = NoPk THEN "fblueprint" ELSE "fprovider"
              \/ pass'.at = "fblueprint" /\ skipped' = skipped \cup {pass.i}
<1> DEFINE next == IF pass.pk = NoPk THEN "fblueprint" ELSE "fprovider"
<1>1. /\ pass.at = "fapp" /\ UNCHANGED <<bp, queue, oauth, proxy, outpost, pks>>
      /\ app' = IF Effective THEN [app EXCEPT ![pass.i] = NoApp] ELSE app
      /\ Clean(TRUE, next, "fblueprint")
  BY Zenon DEF deleteProxyApplication, In
<1>2. pass.i \in Instances /\ next \in Cleaning /\ "fblueprint" \in Cleaning /\ TRUE \in BOOLEAN
  BY <1>1, Zenon DEF Shape, Cleaning
<1> HIDE DEF next
<1>3. /\ Onward /\ pass'.pk = pass.pk /\ UNCHANGED <<spec, cond, creds, made, tampered>>
      /\ \/ pass'.at = next /\ api = "up" /\ skipped' = skipped
         \/ pass'.at = "fblueprint" /\ skipped' = skipped \cup {pass.i}
  BY <1>1, <1>2, CleanEffect, Zenon
<1>4. /\ app' \in [Instances -> Applications] /\ (Effective => app'[pass.i] = NoApp)
      /\ \A j \in Instances \ {pass.i} : app'[j] = app[j]
  BY <1>1, <1>2, Nothing, Zenon DEF Shape
<1>5. Shape'
  BY <1>1, <1>2, <1>3, <1>4, Zenon DEF Shape, Onward
<1>6. OnlyMine
  BY <1>1, <1>4, Zenon DEF OnlyMine
<1>7. api = "up" => Effective
  BY Zenon DEF Effective
<1> QED
  BY <1>1, <1>3, <1>4, <1>5, <1>6, <1>7, Zenon DEF next

\* Authentik drops a deleted provider everywhere.
LEMMA DroppedEffect ==
    ASSUME Shape, NEW i \in Instances, Dropped(i)
    PROVE  /\ proxy' \in [Instances -> ProxyProviders] /\ app' \in [Instances -> Applications]
           /\ proxy'[i] = NoProxy /\ (app[i] = NoApp => app'[i] = NoApp)
           /\ \A j \in Instances \ {i} : proxy'[j] = proxy[j] /\ app'[j] = app[j]
           /\ \A j \in Instances : proxy'[j].pk \in KeysOf(j)
           /\ outpost' = outpost \ {proxy[i].pk} /\ outpost' \subseteq Keys
<1>1. /\ proxy' = [proxy EXCEPT ![i] = NoProxy] /\ outpost' = outpost \ {proxy[i].pk}
      /\ app' = [app EXCEPT ![i].pk = NoPk]
  BY Zenon DEF Dropped
<1>2. NoProxy.pk = NoPk /\ NoApp = [NoApp EXCEPT !.pk = NoPk]
  <2>1. NoProxy.pk = NoPk /\ NoApp.pk = NoPk /\ NoApp \in Applications
    BY Nothing DEF NoProxy, NoApp
  <2> QED
    BY <2>1, Zenon DEF Applications
<1> DEFINE x == [app[i] EXCEPT !.pk = NoPk]
<1>3. app' = [app EXCEPT ![i] = x] /\ (app[i] = NoApp => x = NoApp)
  BY <1>1, <1>2, Zenon
<1>4. x \in Applications
  BY Nothing, Zenon DEF Shape, Applications
<1> HIDE DEF x
<1>5. /\ proxy' \in [Instances -> ProxyProviders] /\ app' \in [Instances -> Applications]
      /\ proxy'[i] = NoProxy /\ app'[i] = x
      /\ \A j \in Instances \ {i} : proxy'[j] = proxy[j] /\ app'[j] = app[j]
  <2>1. proxy \in [Instances -> ProxyProviders] /\ app \in [Instances -> Applications]
    BY Zenon DEF Shape
  <2>2. /\ proxy' \in [Instances -> ProxyProviders] /\ proxy'[i] = NoProxy
        /\ \A j \in Instances \ {i} : proxy'[j] = proxy[j]
    BY <1>1, <2>1, Nothing, Zenon
  <2>3. /\ app' \in [Instances -> Applications] /\ app'[i] = x
        /\ \A j \in Instances \ {i} : app'[j] = app[j]
    BY <1>3, <1>4, <2>1, Zenon
  <2> QED
    BY <2>2, <2>3, Zenon
<1>6. \A j \in Instances : proxy'[j].pk \in KeysOf(j)
  BY <1>2, <1>5, Zenon DEF Shape, KeysOf
<1> QED
  BY <1>1, <1>3, <1>5, <1>6, Zenon DEF Shape

LEMMA DeleteProviderEffect ==
    ASSUME Shape, deleteProxyProvider
    PROVE  /\ Shape' /\ Onward /\ OnlyMine /\ pass.at = "fprovider"
           /\ UNCHANGED <<spec, cond, creds, bp, queue, oauth, tampered>>
           /\ outpost' \in {outpost, outpost \ {proxy[pass.i].pk}}
           /\ proxy'[pass.i] \in {proxy[pass.i], NoProxy}
           /\ app[pass.i] = NoApp => app'[pass.i] = NoApp
           /\ pass'.at = "fblueprint"
           /\ \/ skipped' = skipped /\ proxy'[pass.i] = NoProxy
              \/ skipped' = skipped \cup {pass.i}
<1> DEFINE same == proxy[pass.i].pk = pass.pk
<1>1. /\ pass.at = "fprovider" /\ UNCHANGED <<bp, queue, oauth, pks>>
      /\ \/ Dropped(pass.i)
         \/ ~(Effective /\ same) /\ UNCHANGED <<proxy, outpost, app>>
      /\ Clean(same, "fblueprint", "fblueprint") /\ same \in BOOLEAN
  BY Zenon DEF deleteProxyProvider, In
<1>2. pass.i \in Instances /\ "fblueprint" \in Cleaning
  BY <1>1, Zenon DEF Shape, Cleaning
<1> HIDE DEF same
<1>3. /\ Onward /\ pass'.pk = pass.pk /\ UNCHANGED <<spec, cond, creds, made, tampered>>
      /\ pass'.at = "fblueprint"
      /\ \/ api = "up" /\ same /\ skipped' = skipped
         \/ skipped' = skipped \cup {pass.i}
  BY <1>1, <1>2, CleanEffect, Zenon
<1>4. api = "up" => Effective
  BY Zenon DEF Effective
<1>5. CASE Dropped(pass.i)
  <2>1. Shape'
    BY <1>1, <1>2, <1>3, <1>5, DroppedEffect, Zenon DEF Shape, Onward
  <2>2. OnlyMine
    BY <1>1, <1>2, <1>5, DroppedEffect, ZenonT(40) DEF OnlyMine
  <2> QED
    BY <1>1, <1>2, <1>3, <1>5, <2>1, <2>2, DroppedEffect, Zenon
<1>6. CASE ~(Effective /\ same) /\ UNCHANGED <<proxy, outpost, app>>
  <2>1. Shape'
    BY <1>1, <1>2, <1>3, <1>6, Zenon DEF Shape, Onward
  <2>2. OnlyMine
    BY <1>1, <1>6, Zenon DEF OnlyMine
  <2> QED
    BY <1>1, <1>2, <1>3, <1>4, <1>6, <2>1, <2>2, Zenon
<1> QED
  BY <1>1, <1>5, <1>6, Zenon

LEMMA DeleteBlueprintEffect ==
    ASSUME Shape, DeleteByName
    PROVE  /\ Shape' /\ Onward /\ OnlyMine /\ pass.at = "fblueprint"
           /\ UNCHANGED <<spec, cond, creds, oauth, proxy, app, outpost, tampered>>
           /\ pass'.at = "release"
           /\ bp'[pass.i] \in {bp[pass.i], NoBlueprint}
           /\ bp'[pass.i] = bp[pass.i] => bp'[pass.i] = NoBlueprint \/ queue' = queue
           /\ \/ skipped' = skipped /\ Unrendered(pass.i)'
              \/ skipped' = skipped \cup {pass.i}
<1>1. /\ pass.at = "fblueprint" /\ UNCHANGED <<oauth, proxy, app, outpost, pks>>
      /\ bp' = IF Effective THEN [bp EXCEPT ![pass.i] = NoBlueprint] ELSE bp
      /\ queue' = IF Effective THEN queue \ {pass.i} ELSE queue
      /\ Clean(TRUE, "release", "release")
  BY Zenon DEF DeleteByName, In
<1>2. pass.i \in Instances /\ "release" \in Cleaning /\ TRUE \in BOOLEAN
  BY <1>1, Zenon DEF Shape, Cleaning
<1>3. /\ Onward /\ pass'.pk = pass.pk /\ UNCHANGED <<spec, cond, creds, made, tampered>>
      /\ pass'.at = "release"
      /\ \/ api = "up" /\ skipped' = skipped
         \/ skipped' = skipped \cup {pass.i}
  BY <1>1, <1>2, CleanEffect, Zenon
<1>4. /\ bp' \in [Instances -> Blueprints] /\ queue' \subseteq Instances
      /\ bp'[pass.i] = IF Effective THEN NoBlueprint ELSE bp[pass.i]
      /\ \A j \in Instances \ {pass.i} : bp'[j] = bp[j] /\ (j \in queue' <=> j \in queue)
  BY <1>1, <1>2, Nothing, Zenon DEF Shape
<1>5. Shape'
  BY <1>1, <1>2, <1>3, <1>4, Zenon DEF Shape, Onward
<1>6. OnlyMine
  BY <1>1, <1>4, Zenon DEF OnlyMine
<1>7. api = "up" => Unrendered(pass.i)'
  BY <1>1, <1>3, <1>4, Zenon DEF Effective, Unrendered, Onward
<1> QED
  BY <1>1, <1>3, <1>4, <1>5, <1>6, <1>7, Zenon

\* The finalizer goes, and with it the instance, its condition and credentials.
LEMMA ReleaseEffect ==
    ASSUME Shape, Release
    PROVE  /\ Shape' /\ pass.at = "release" /\ pass' = Idle
           /\ UNCHANGED <<authentik, tampered, skipped>>
           /\ ~spec'[pass.i].exists /\ spec'[pass.i].gen = spec[pass.i].gen
           /\ cond'[pass.i].gen = 0 /\ creds'[pass.i] = 0
           /\ \A j \in Instances \ {pass.i} :
                 spec'[j] = spec[j] /\ cond'[j] = cond[j] /\ creds'[j] = creds[j]
<1> DEFINE i == pass.i
           u == [spec[i] EXCEPT !.exists = FALSE]
           v == [u EXCEPT !.deleting = FALSE]
<1>1. /\ pass.at = "release" /\ pass' = Idle /\ i \in Instances
      /\ UNCHANGED <<made, authentik, tampered, skipped>>
      /\ spec' = [spec EXCEPT ![i].exists = FALSE, ![i].deleting = FALSE]
      /\ cond' = [cond EXCEPT ![i] = NoCond] /\ creds' = [creds EXCEPT ![i] = 0]
  BY Zenon DEF Release, In, Shape
<1>2. u \in SpecObjects /\ u.exists = FALSE /\ u.gen = spec[i].gen
  BY <1>1, ZenonT(40) DEF Shape, SpecObjects
<1>3. spec' = [spec EXCEPT ![i] = v]
  BY <1>1, Zenon DEF Shape, SpecObjects
<1> HIDE DEF u
<1>4. v \in SpecObjects /\ v.exists = FALSE /\ v.gen = spec[i].gen
  BY <1>2, Zenon DEF SpecObjects
<1> HIDE DEF v
<1>5. /\ spec' \in [Instances -> SpecObjects] /\ spec'[i] = v
      /\ \A j \in Instances \ {i} : spec'[j] = spec[j]
  <2> HIDE DEF i
  <2>1. spec \in [Instances -> SpecObjects] /\ i \in Instances
    BY <1>1, Zenon DEF Shape
  <2> QED
    BY <1>3, <1>4, <2>1, Zenon
<1>6. /\ creds' \in [Instances -> Nat] /\ creds'[i] = 0
      /\ \A j \in Instances \ {i} : creds'[j] = creds[j]
  BY <1>1 DEF Shape
<1>7. /\ cond' = [j \in Instances |-> cond'[j]] /\ cond'[i] = NoCond
      /\ \A j \in Instances \ {i} : cond'[j] = cond[j]
  BY <1>1, Zenon DEF Shape
<1>8. NoCond.gen = 0
  BY DEF NoCond
<1>9. Shape'
  BY <1>1, <1>5, <1>6, <1>7, Nothing, Zenon DEF Shape, authentik, KeysOf
<1> QED
  BY <1>1, <1>4, <1>5, <1>6, <1>7, <1>8, <1>9, Zenon

\* Only the status patch of an unchanged object changes a condition, and it says
\* "Ready" only of a pass that applied everything and found the provider.
LEMMA StatusEffect ==
    ASSUME Shape, Status
    PROVE  /\ Shape' /\ pass.at = "status" /\ pass' = Idle
           /\ UNCHANGED <<spec, creds, authentik, skipped>>
           /\ \A j \in Instances \ {pass.i} :
                 cond'[j] = cond[j] /\ (j \in tampered' <=> j \in tampered)
           /\ \/ cond'[pass.i] = cond[pass.i] /\ tampered' = tampered
              \/ /\ spec[pass.i] = pass.s /\ cond'[pass.i].gen = pass.s.gen
                 /\ cond'[pass.i].result = "Ready" =>
                       pass.out = "applied" /\ oauth[pass.i] # NoContent
                 /\ pass.fresh \/ tampered' = tampered
<1> DEFINE i == pass.i
           c == cond[i]
           r == result(i, pass.out, c, pass.s.gen)
           n == [result |-> r, gen |-> pass.s.gen,
                 old |-> c.old /\ c.result = "Retrying" /\ r = "Retrying"]
           accepted == spec[i] = pass.s
<1>1. /\ pass.at = "status" /\ pass' = Idle /\ i \in Instances
      /\ UNCHANGED <<spec, creds, made, authentik, skipped>>
      /\ cond' = IF accepted THEN [cond EXCEPT ![i] = n] ELSE cond
      /\ tampered' = IF accepted /\ r = "Ready" /\ pass.fresh THEN tampered \ {i} ELSE tampered
  BY Zenon DEF Status, In, Shape
<1>2. pass.s.gen \in Nat /\ pass.out \in Outs /\ pass.out # "none"
  BY <1>1, Zenon DEF Shape, Passes, SpecObjects
<1>3. r = "Ready" => pass.out = "applied" /\ oauth[i] # NoContent
  BY <1>2 DEF result, Outs, Probe
<1> HIDE DEF r
<1>4. n \in Conditions(n.result) /\ n.result = r /\ n.gen = pass.s.gen
  BY <1>2 DEF Conditions
<1> HIDE DEF n
<1>5. /\ cond' = [j \in Instances |-> cond'[j]]
      /\ cond'[i] = IF accepted THEN n ELSE c
      /\ \A j \in Instances \ {i} : cond'[j] = cond[j]
  BY <1>1, Zenon DEF Shape
<1>6. Shape'
  BY <1>1, <1>4, <1>5, Nothing, Zenon DEF Shape, authentik, KeysOf
<1> QED
  BY <1>1, <1>3, <1>4, <1>5, <1>6, Zenon

-----------------------------------------------------------------------------
(* What Authentik, the users and the faults do.                            *)

\* Authentik applies a Blueprint, or fails to.
LEMMA RunEffect ==
    ASSUME Shape, NEW i \in Instances, RunBlueprint(i) \/ BlueprintError(i)
    PROVE  /\ Shape' /\ i \in queue /\ queue' = queue \ {i}
           /\ UNCHANGED <<spec, cond, creds, proxy, app, outpost, pass, tampered, skipped>>
           /\ bp'[i].content = bp[i].content
           /\ \/ bp'[i].status = "successful" /\ oauth'[i] = bp[i].content
              \/ bp'[i].status = "error" /\ oauth'[i] = oauth[i]
           /\ \A j \in Instances \ {i} : bp'[j] = bp[j] /\ oauth'[j] = oauth[j]
<1>1. PICK st \in {"successful", "error"} :
         /\ i \in queue /\ queue' = queue \ {i}
         /\ bp' = [bp EXCEPT ![i].status = st, ![i].applied = TRUE]
         /\ st = "successful" => oauth' = [oauth EXCEPT ![i] = bp[i].content]
         /\ st = "error" => oauth' = oauth
         /\ UNCHANGED <<spec, cond, creds, made, proxy, app, outpost, pks, pass, tampered,
                        skipped>>
  BY Zenon DEF RunBlueprint, BlueprintError
<1> DEFINE u == [bp[i] EXCEPT !.status = st]
           v == [u EXCEPT !.applied = TRUE]
<1>2. bp \in [Instances -> Blueprints] /\ oauth \in [Instances -> Renderings]
  BY Zenon DEF Shape
<1>3. u \in Blueprints /\ u.status = st /\ u.content = bp[i].content
  BY <1>2, Zenon DEF Blueprints, BlueprintStatuses
<1>4. bp' = [bp EXCEPT ![i] = v]
  BY <1>1, <1>2, Zenon DEF Blueprints
<1> HIDE DEF u
<1>5. v \in Blueprints /\ v.status = st /\ v.content = bp[i].content
  BY <1>3, Zenon DEF Blueprints
<1> HIDE DEF v
<1>6. /\ bp' \in [Instances -> Blueprints] /\ bp'[i] = v
      /\ \A j \in Instances \ {i} : bp'[j] = bp[j]
  BY <1>2, <1>4, <1>5, Zenon
<1>7. bp[i].content \in Renderings
  BY <1>2, Zenon DEF Blueprints
<1>8. /\ oauth' \in [Instances -> Renderings]
      /\ st = "successful" => oauth'[i] = bp[i].content
      /\ st = "error" => oauth'[i] = oauth[i]
      /\ \A j \in Instances \ {i} : oauth'[j] = oauth[j]
  <2>1. CASE st = "successful"
    BY <1>1, <1>2, <1>7, <2>1, Zenon
  <2>2. CASE st = "error"
    BY <1>1, <1>2, <2>2, Zenon
  <2> QED
    BY <2>1, <2>2, Zenon
<1>9. Shape'
  BY <1>1, <1>6, <1>8, Zenon DEF Shape
<1> QED
  BY <1>1, <1>5, <1>6, <1>8, <1>9, Zenon

\* Somebody removes something of an instance; a pass at work on it remembers
\* that it cannot vouch for it.
LEMMA TamperEffect ==
    ASSUME Shape, NEW i \in Instances,
           TamperOAuth(i) \/ TamperProxy(i) \/ TamperBlueprint(i) \/ LoseCreds(i)
    PROVE  /\ Shape' /\ UNCHANGED <<spec, cond, skipped>> /\ tampered' = tampered \cup {i}
           /\ \A j \in Instances \ {i} :
                 /\ bp'[j] = bp[j] /\ oauth'[j] = oauth[j] /\ proxy'[j] = proxy[j]
                 /\ app'[j] = app[j] /\ creds'[j] = creds[j] /\ (j \in queue' <=> j \in queue)
           /\ \/ bp'[i] = bp[i] /\ (i \in queue' <=> i \in queue)
              \/ bp'[i] = NoBlueprint /\ i \notin queue'
           /\ oauth'[i] \in {NoContent, oauth[i]} /\ proxy'[i] \in {NoProxy, proxy[i]}
           /\ app[i] = NoApp => app'[i] = NoApp
           /\ outpost' \in {outpost, outpost \ {proxy[i].pk}}
           /\ pass' = IF pass.i = i THEN Stale(pass) ELSE pass
           /\ pass'.at = pass.at /\ pass'.i = pass.i /\ pass'.s = pass.s /\ pass'.pk = pass.pk
           /\ pass'.seen = pass.seen /\ pass'.content = pass.content /\ pass'.out = pass.out
           /\ pass.i = i => ~pass'.fresh
<1>1. /\ tampered' = tampered \cup {i} /\ UNCHANGED <<spec, cond, made, pks, skipped>>
      /\ pass' = IF pass.i = i THEN Stale(pass) ELSE pass
  BY Zenon DEF TamperOAuth, TamperProxy, TamperBlueprint, LoseCreds, Tampered, Stale
<1>2. /\ pass \in Passes /\ bp \in [Instances -> Blueprints] /\ oauth \in [Instances -> Renderings]
      /\ proxy \in [Instances -> ProxyProviders] /\ app \in [Instances -> Applications]
      /\ creds \in [Instances -> Nat] /\ queue \subseteq Instances /\ outpost \subseteq Keys
      /\ \A j \in Instances : proxy[j].pk \in KeysOf(j)
  BY Zenon DEF Shape
<1>3. /\ pass' \in Passes /\ pass'.at = pass.at /\ pass'.i = pass.i /\ pass'.s = pass.s
      /\ pass'.pk = pass.pk /\ pass'.seen = pass.seen /\ pass'.content = pass.content
      /\ pass'.out = pass.out /\ (pass.i = i => ~pass'.fresh)
  <2>1. CASE pass.i = i
    BY <1>1, <1>2, <2>1, StaleFields, Zenon
  <2>2. CASE pass.i # i
    BY <1>1, <1>2, <2>2, Zenon
  <2> QED
    BY <2>1, <2>2, Zenon
<1> DEFINE Same ==
              /\ bp' \in [Instances -> Blueprints] /\ oauth' \in [Instances -> Renderings]
              /\ proxy' \in [Instances -> ProxyProviders] /\ app' \in [Instances -> Applications]
              /\ creds' \in [Instances -> Nat] /\ queue' \subseteq Instances
              /\ outpost' \subseteq Keys /\ \A j \in Instances : proxy'[j].pk \in KeysOf(j)
           Others == \A j \in Instances \ {i} :
              /\ bp'[j] = bp[j] /\ oauth'[j] = oauth[j] /\ proxy'[j] = proxy[j]
              /\ app'[j] = app[j] /\ creds'[j] = creds[j] /\ (j \in queue' <=> j \in queue)
           Mine ==
              /\ \/ bp'[i] = bp[i] /\ (i \in queue' <=> i \in queue)
                 \/ bp'[i] = NoBlueprint /\ i \notin queue'
              /\ oauth'[i] \in {NoContent, oauth[i]} /\ proxy'[i] \in {NoProxy, proxy[i]}
              /\ app[i] = NoApp => app'[i] = NoApp
              /\ outpost' \in {outpost, outpost \ {proxy[i].pk}}
<1>4. Same /\ Others /\ Mine
  <2>1. CASE TamperOAuth(i)
    <3>1. /\ oauth' = [oauth EXCEPT ![i] = NoContent]
          /\ UNCHANGED <<creds, bp, queue, proxy, app, outpost>>
      BY <2>1, Zenon DEF TamperOAuth
    <3> QED
      BY <1>2, <3>1, Nothing, Zenon
  <2>2. CASE TamperProxy(i)
    <3>1. Dropped(i) /\ UNCHANGED <<creds, bp, queue, oauth>>
      BY <2>2, Zenon DEF TamperProxy
    <3> QED
      BY <1>2, <3>1, DroppedEffect, Zenon
  <2>3. CASE TamperBlueprint(i)
    <3>1. /\ bp' = [bp EXCEPT ![i] = NoBlueprint] /\ queue' = queue \ {i}
          /\ UNCHANGED <<creds, oauth, proxy, app, outpost>>
      BY <2>3, Zenon DEF TamperBlueprint
    <3> QED
      BY <1>2, <3>1, Nothing, Zenon
  <2>4. CASE LoseCreds(i)
    <3>1. creds' = [creds EXCEPT ![i] = 0] /\ UNCHANGED <<bp, queue, oauth, proxy, app, outpost>>
      BY <2>4, Zenon DEF LoseCreds
    <3>2. creds' \in [Instances -> Nat] /\ \A j \in Instances \ {i} : creds'[j] = creds[j]
      BY <1>2, <3>1
    <3> QED
      BY <1>2, <3>1, <3>2, Zenon
  <2> QED
    BY <2>1, <2>2, <2>3, <2>4, Zenon
<1>5. Shape'
  <2> HIDE DEF Mine, Others
  <2> QED
    BY <1>1, <1>3, <1>4, Zenon DEF Shape
<1> QED
  BY <1>1, <1>3, <1>4, <1>5, Zenon

\* Users create, edit and delete an instance.
LEMMA SpecEffect ==
    ASSUME Shape, NEW i \in Instances, Create(i) \/ EditSpec(i) \/ Delete(i)
    PROVE  /\ Shape' /\ UNCHANGED <<cond, creds, authentik, pass, tampered>>
           /\ spec'[i].exists /\ \A j \in Instances \ {i} : spec'[j] = spec[j]
           /\ \/ /\ ~spec[i].exists /\ skipped' = skipped \ {i}
                 /\ spec'[i].gen = spec[i].gen + 1
              \/ /\ spec[i].exists /\ ~spec[i].deleting /\ skipped' = skipped
                 /\ spec'[i].gen = spec[i].gen + 1
              \/ /\ spec[i].exists /\ ~spec[i].deleting /\ skipped' = skipped
                 /\ spec'[i].gen = spec[i].gen /\ spec'[i].deleting
<1>1. UNCHANGED <<cond, creds, made, authentik, pass, tampered>>
  BY Zenon DEF Create, EditSpec, Delete, User
<1>2. spec \in [Instances -> SpecObjects] /\ spec[i] \in SpecObjects /\ spec[i].gen + 1 \in Nat
  BY DEF Shape, SpecObjects
<1> DEFINE Goal ==
              \/ /\ ~spec[i].exists /\ skipped' = skipped \ {i}
                 /\ spec'[i].gen = spec[i].gen + 1
              \/ /\ spec[i].exists /\ ~spec[i].deleting /\ skipped' = skipped
                 /\ spec'[i].gen = spec[i].gen + 1
              \/ /\ spec[i].exists /\ ~spec[i].deleting /\ skipped' = skipped
                 /\ spec'[i].gen = spec[i].gen /\ spec'[i].deleting
<1>3. /\ spec' \in [Instances -> SpecObjects] /\ spec'[i].exists
      /\ \A j \in Instances \ {i} : spec'[j] = spec[j]
      /\ Goal
  <2>1. CASE Create(i)
    <3>1. PICK r \in FirstRevs :
             spec' = [spec EXCEPT ![i] =
                        [exists |-> TRUE, deleting |-> FALSE, gen |-> @.gen + 1, rev |-> r]]
      BY <2>1, Zenon DEF Create
    <3> DEFINE x == [exists |-> TRUE, deleting |-> FALSE, gen |-> spec[i].gen + 1, rev |-> r]
    <3>2. x \in SpecObjects /\ x.exists /\ x.gen = spec[i].gen + 1
      BY <1>2, ConstantsAssumption DEF SpecObjects
    <3>3. spec' = [spec EXCEPT ![i] = x] /\ ~spec[i].exists /\ skipped' = skipped \ {i}
      BY <2>1, <3>1, Zenon DEF Create
    <3> HIDE DEF x
    <3>4. /\ spec' \in [Instances -> SpecObjects] /\ spec'[i] = x
          /\ \A j \in Instances \ {i} : spec'[j] = spec[j]
      BY <1>2, <3>2, <3>3, Zenon
    <3> QED
      BY <3>2, <3>3, <3>4, Zenon
  <2>2. CASE EditSpec(i)
    <3>1. PICK r \in Revs : spec' = [spec EXCEPT ![i].gen = @ + 1, ![i].rev = r]
      BY <2>2, Zenon DEF EditSpec
    <3>2. spec[i].exists /\ ~spec[i].deleting /\ skipped' = skipped
      BY <2>2, Zenon DEF EditSpec
    <3> DEFINE u == [spec[i] EXCEPT !.gen = spec[i].gen + 1]
               x == [u EXCEPT !.rev = r]
    <3>3. spec' = [spec EXCEPT ![i] = x]
      BY <1>2, <3>1, Zenon DEF SpecObjects
    <3>4. u \in SpecObjects /\ u.exists /\ u.gen = spec[i].gen + 1
      BY <1>2, <3>2, Zenon DEF SpecObjects
    <3> HIDE DEF u
    <3>5. x \in SpecObjects /\ x.exists /\ x.gen = spec[i].gen + 1
      BY <3>4, Zenon DEF SpecObjects
    <3> HIDE DEF x
    <3>6. /\ spec' \in [Instances -> SpecObjects] /\ spec'[i] = x
          /\ \A j \in Instances \ {i} : spec'[j] = spec[j]
      BY <1>2, <3>3, <3>5, Zenon
    <3> QED
      BY <3>2, <3>5, <3>6, Zenon
  <2>3. CASE Delete(i)
    <3> DEFINE x == [spec[i] EXCEPT !.deleting = TRUE]
    <3>1. /\ spec' = [spec EXCEPT ![i] = x] /\ spec[i].exists /\ ~spec[i].deleting
          /\ skipped' = skipped
      BY <2>3, Zenon DEF Delete
    <3>2. x \in SpecObjects /\ x.exists /\ x.deleting /\ x.gen = spec[i].gen
      BY <1>2, <3>1, Zenon DEF SpecObjects
    <3> HIDE DEF x
    <3>3. /\ spec' \in [Instances -> SpecObjects] /\ spec'[i] = x
          /\ \A j \in Instances \ {i} : spec'[j] = spec[j]
      BY <1>2, <3>1, <3>2, Zenon
    <3> QED
      BY <3>1, <3>2, <3>3, Zenon
  <2> QED
    BY <2>1, <2>2, <2>3, Zenon
<1> HIDE DEF Goal
<1>4. Shape'
  BY <1>1, <1>3, Zenon DEF Shape, authentik
<1> QED
  BY <1>1, <1>3, <1>4, Zenon DEF Goal

\* The rest of the environment.
LEMMA OutsideEffect ==
    ASSUME Shape, LoseToken \/ RestoreToken \/ Trouble \/ Recover \/ EditOutpost
    PROVE  /\ Shape'
           /\ UNCHANGED <<spec, cond, creds, bp, queue, oauth, proxy, app, pass, tampered,
                          skipped>>
           /\ outpost' \in {outpost, outpost \ {Foreign}, outpost \cup {Foreign}}
<1>1. /\ UNCHANGED <<spec, cond, creds, made, bp, queue, oauth, proxy, app, pks, pass,
                     tampered, skipped>>
      /\ outpost' \in {outpost, outpost \ {Foreign}, outpost \cup {Foreign}}
  BY Zenon DEF LoseToken, RestoreToken, Trouble, Recover, EditOutpost, User, authentik
<1>2. outpost' \subseteq Keys
  BY <1>1, Zenon DEF Shape, Keys
<1> QED
  BY <1>1, <1>2, Zenon DEF Shape

LEMMA CrashEffect ==
    ASSUME Shape, Crash
    PROVE  /\ Shape' /\ pass' = Idle
           /\ UNCHANGED <<spec, cond, creds, authentik, tampered, skipped>>
<1>1. pass' = Idle /\ UNCHANGED <<spec, cond, creds, made, authentik, tampered, skipped>>
  BY Zenon DEF Crash
<1> QED
  BY <1>1, Nothing, Zenon DEF Shape, authentik, KeysOf

LEMMA GraceEffect ==
    ASSUME Shape, NEW i \in Instances, GraceElapses(i)
    PROVE  /\ Shape' /\ UNCHANGED <<spec, creds, authentik, pass, tampered, skipped>>
           /\ cond'[i].result = cond[i].result /\ cond'[i].gen = cond[i].gen
           /\ \A j \in Instances \ {i} : cond'[j] = cond[j]
<1> DEFINE x == [cond[i] EXCEPT !.old = TRUE]
<1>1. /\ UNCHANGED <<spec, creds, made, authentik, pass, tampered, skipped>>
      /\ cond' = [cond EXCEPT ![i] = x]
  BY Zenon DEF GraceElapses
<1>2. x \in Conditions(x.result) /\ x.result = cond[i].result /\ x.gen = cond[i].gen
  BY Zenon DEF Shape, Conditions
<1> HIDE DEF x
<1>3. /\ cond' = [j \in Instances |-> cond'[j]] /\ cond'[i] = x
      /\ \A j \in Instances \ {i} : cond'[j] = cond[j]
  BY <1>1, Zenon DEF Shape
<1>4. Shape'
  BY <1>1, <1>2, <1>3, Zenon DEF Shape, authentik
<1> QED
  BY <1>1, <1>2, <1>3, <1>4, Zenon

-----------------------------------------------------------------------------
(* A finished clean-up leaves nothing.                                     *)

LEMMA StagesDisjoint ==
    /\ \A at \in Serving : at \notin Cleaning /\ at # "idle"
    /\ \A at \in Cleaning : at # "idle" /\ at \notin Serving
    /\ {"fput", "fapp", "fprovider", "fblueprint", "release", "fproxy"} = Cleaning
  BY DEF Serving, Cleaning

\* A step of a pass on its own instance.
LEMMA DisposalOwn ==
    ASSUME Disposal, Shape', pass.at # "idle", pass'.at # "idle", Onward, OnlyMine,
           spec' = spec, skipped' \in {skipped, skipped \cup {pass.i}},
           pass'.at \in Cleaning => pass.at \in Cleaning,
           proxy'[pass.i].pk = NoPk => proxy'[pass.i] = NoProxy,
           Cleaned'
    PROVE  Disposal'
<1>1. Current'
  BY Zenon DEF Disposal, Current, Onward
<1>2. NoKey'
  BY Zenon DEF Disposal, NoKey, OnlyMine
<1>3. Left'
  <2> SUFFICES ASSUME NEW j \in Instances \ skipped', ~spec'[j].exists
               PROVE  Removed(j)' /\ Unrendered(j)'
    BY Zenon DEF Left
  <2>1. j # pass.i
    BY Zenon DEF Disposal, Current
  <2>2. Removed(j) /\ Unrendered(j)
    BY Zenon DEF Disposal, Left
  <2> QED
    BY <2>1, <2>2, Zenon DEF OnlyMine, Removed, Unrendered
<1> QED
  BY <1>1, <1>2, <1>3, Zenon DEF Disposal

LEMMA ServingDisposal ==
    ASSUME Disposal,
           \/ BlueprintWrite \/ BlueprintApply \/ Reapply \/ upsertProxyProvider
           \/ upsertProxyApplication \/ addProviderToEmbeddedOutpost
    PROVE  Disposal'
<1>1. Shape /\ NoKey
  BY Zenon DEF Disposal
<1>2. /\ Shape' /\ Onward /\ OnlyMine /\ pass.at \in Serving /\ pass'.at \in Serving
      /\ UNCHANGED <<spec, skipped>>
      /\ proxy'[pass.i] = proxy[pass.i] \/ proxy'[pass.i].pk # NoPk
  <2>1. CASE BlueprintWrite
    BY <1>1, <2>1, BlueprintWriteEffect, Zenon DEF Serving
  <2>2. CASE BlueprintApply \/ Reapply
    BY <1>1, <2>2, ApplyEffect, Zenon DEF Serving
  <2>3. CASE upsertProxyProvider
    BY <1>1, <2>3, ProxyEffect, Zenon DEF Serving
  <2>4. CASE upsertProxyApplication
    BY <1>1, <2>4, ApplicationEffect, Zenon DEF Serving
  <2>5. CASE addProviderToEmbeddedOutpost
    BY <1>1, <2>5, OutpostEffect, Zenon DEF Serving
  <2> QED
    BY <2>1, <2>2, <2>3, <2>4, <2>5, Zenon
<1>3. pass.at # "idle" /\ pass'.at # "idle" /\ pass'.at \notin Cleaning
  BY <1>2, StagesDisjoint, Zenon
<1>4. Cleaned'
  BY <1>3, Zenon DEF Cleaned, Cleaning
<1>5. proxy'[pass.i].pk = NoPk => proxy'[pass.i] = NoProxy
  BY <1>1, <1>2, <1>3, Zenon DEF NoKey, Shape
<1> QED
  BY <1>2, <1>3, <1>4, <1>5, DisposalOwn, Zenon

LEMMA CleaningDisposal ==
    ASSUME Disposal,
           \/ FinalizeFind \/ removeProviderFromEmbeddedOutpost \/ deleteProxyApplication
           \/ deleteProxyProvider \/ DeleteByName
    PROVE  Disposal'
<1>1. Shape /\ NoKey /\ Cleaned
  BY Zenon DEF Disposal
<1>2. NoProxy.pk = NoPk
  BY DEF NoProxy
<1> DEFINE Kept == /\ Shape' /\ Onward /\ OnlyMine /\ spec' = spec
                   /\ skipped' \in {skipped, skipped \cup {pass.i}}
                   /\ pass.at \in Cleaning /\ pass'.at \in Cleaning
                   /\ proxy'[pass.i] \in {proxy[pass.i], NoProxy}
<1>3. Kept /\ Cleaned'
  <2>1. CASE FinalizeFind
    <3>1. /\ Shape' /\ Onward /\ pass.at = "fproxy" /\ UNCHANGED <<spec, authentik>>
          /\ \/ /\ pass'.at \in {"fput", "fapp"} /\ skipped' = skipped
                /\ pass'.pk = proxy[pass.i].pk
             \/ pass'.at = "fblueprint" /\ skipped' = skipped \cup {pass.i}
      BY <1>1, <2>1, FindEffect, Zenon
    <3>2. Kept
      BY <3>1, Zenon DEF OnlyMine, authentik, Cleaning
    <3> QED
      BY <3>1, <3>2, Zenon DEF Cleaned, Onward, authentik
  <2>2. CASE removeProviderFromEmbeddedOutpost
    <3>1. /\ Shape' /\ Onward /\ pass.at = "fput" /\ pass'.pk = pass.pk
          /\ UNCHANGED <<spec, bp, queue, proxy, app>>
          /\ \/ pass'.at = "fapp" /\ skipped' = skipped
             \/ pass'.at = "fblueprint" /\ skipped' = skipped \cup {pass.i}
      BY <1>1, <2>2, RemoveEffect, Zenon
    <3>2. Kept
      BY <3>1, Zenon DEF OnlyMine, Cleaning
    <3> QED
      BY <1>1, <3>1, <3>2, Zenon DEF Cleaned, Onward
  <2>3. CASE deleteProxyApplication
    <3>1. /\ Shape' /\ Onward /\ OnlyMine /\ pass.at = "fapp" /\ pass'.pk = pass.pk
          /\ UNCHANGED <<spec, proxy>>
          /\ \/ /\ skipped' = skipped /\ app'[pass.i] = NoApp
                /\ pass'.at = IF pass.pk = NoPk THEN "fblueprint" ELSE "fprovider"
             \/ pass'.at = "fblueprint" /\ skipped' = skipped \cup {pass.i}
      BY <1>1, <2>3, DeleteApplicationEffect, Zenon
    <3>2. Kept
      BY <3>1, Zenon DEF Cleaning
    <3>3. pass.i \in Instances
      BY <1>1, <3>1, Zenon DEF Shape
    <3>4. pass.i \notin skipped =>
             /\ proxy[pass.i] = NoProxy \/ proxy[pass.i].pk = pass.pk
             /\ pass.pk = NoPk => proxy[pass.i] = NoProxy
      BY <1>1, <3>1, <3>3, Zenon DEF Cleaned, NoKey
    <3> QED
      BY <3>1, <3>2, <3>4, Zenon DEF Cleaned, Onward, Removed
  <2>4. CASE deleteProxyProvider
    <3>1. /\ Shape' /\ Onward /\ OnlyMine /\ pass.at = "fprovider" /\ spec' = spec
          /\ proxy'[pass.i] \in {proxy[pass.i], NoProxy}
          /\ app[pass.i] = NoApp => app'[pass.i] = NoApp
          /\ pass'.at = "fblueprint"
          /\ \/ skipped' = skipped /\ proxy'[pass.i] = NoProxy
             \/ skipped' = skipped \cup {pass.i}
      BY <1>1, <2>4, DeleteProviderEffect, Zenon
    <3>2. Kept
      BY <3>1, Zenon DEF Cleaning
    <3> QED
      BY <1>1, <3>1, <3>2, Zenon DEF Cleaned, Onward, Removed
  <2>5. CASE DeleteByName
    <3>1. /\ Shape' /\ Onward /\ OnlyMine /\ pass.at = "fblueprint"
          /\ UNCHANGED <<spec, proxy, app>> /\ pass'.at = "release"
          /\ \/ skipped' = skipped /\ Unrendered(pass.i)'
             \/ skipped' = skipped \cup {pass.i}
      BY <1>1, <2>5, DeleteBlueprintEffect, Zenon
    <3>2. Kept
      BY <3>1, Zenon DEF Cleaning
    <3> QED
      BY <1>1, <3>1, <3>2, Zenon DEF Cleaned, Onward, Removed
  <2> QED
    BY <2>1, <2>2, <2>3, <2>4, <2>5, Zenon
<1>4. pass.at # "idle" /\ pass'.at # "idle"
  BY <1>3, StagesDisjoint, Zenon
<1>5. proxy'[pass.i].pk = NoPk => proxy'[pass.i] = NoProxy
  BY <1>1, <1>2, <1>3, <1>4, Zenon DEF NoKey, Shape
<1> QED
  BY <1>3, <1>4, <1>5, DisposalOwn, Zenon

\* A pass begins or ends.
LEMMA PassDisposal ==
    ASSUME Disposal,
           \/ \E i \in Instances : Start(i) \/ Finalize(i)
           \/ Release \/ Status \/ Crash
    PROVE  Disposal'
<1>1. Shape /\ Current /\ NoKey /\ Cleaned /\ Left
  BY Zenon DEF Disposal
<1>2. ASSUME NEW i \in Instances, Start(i) PROVE Disposal'
  <2>1. /\ Shape' /\ spec[i].exists /\ pass'.i = i
        /\ UNCHANGED <<spec, authentik, skipped>> /\ pass'.at \in {"blueprint", "status"}
    BY <1>1, <1>2, StartEffect, Zenon
  <2>2. Current' /\ Cleaned'
    BY <2>1, Zenon DEF Current, Cleaned, Cleaning
  <2>3. NoKey' /\ Left'
    BY <1>1, <2>1, Zenon DEF NoKey, Left, Removed, Unrendered, authentik
  <2> QED
    BY <2>1, <2>2, <2>3, Zenon DEF Disposal
<1>3. ASSUME NEW i \in Instances, Finalize(i) PROVE Disposal'
  <2>1. /\ Shape' /\ spec[i].exists /\ spec[i].deleting
        /\ UNCHANGED <<spec, authentik>> /\ pass'.i = i /\ pass'.s = spec[i] /\ ~pass'.fresh
        /\ \/ pass'.at = "fproxy" /\ skipped' = skipped
           \/ pass'.at = "release" /\ skipped' = skipped \cup {i}
    BY <1>1, <1>3, FinalizeEffect, Zenon
  <2>2. Current' /\ Cleaned'
    BY <2>1, Zenon DEF Current, Cleaned
  <2>3. NoKey' /\ Left'
    BY <1>1, <2>1, Zenon DEF NoKey, Left, Removed, Unrendered, authentik
  <2> QED
    BY <2>1, <2>2, <2>3, Zenon DEF Disposal
<1>4. CASE Release
  <2>1. /\ Shape' /\ pass.at = "release" /\ pass' = Idle /\ UNCHANGED <<authentik, skipped>>
        /\ \A j \in Instances \ {pass.i} : spec'[j] = spec[j]
    BY <1>1, <1>4, ReleaseEffect, Zenon
  <2>2. Current' /\ Cleaned'
    BY <2>1, Nothing, Zenon DEF Current, Cleaned
  <2>3. NoKey'
    BY <1>1, <2>1, Zenon DEF NoKey, authentik
  <2>4. Left'
    <3> SUFFICES ASSUME NEW j \in Instances \ skipped, ~spec'[j].exists
                 PROVE  Removed(j) /\ Unrendered(j)
      BY <2>1, Zenon DEF Left, Removed, Unrendered, authentik
    <3>1. CASE j = pass.i
      BY <1>1, <2>1, <3>1, Zenon DEF Cleaned
    <3>2. CASE j # pass.i
      BY <1>1, <2>1, <3>2, Zenon DEF Left
    <3> QED
      BY <3>1, <3>2, Zenon
  <2> QED
    BY <2>1, <2>2, <2>3, <2>4, Zenon DEF Disposal
<1>5. CASE Status \/ Crash
  <2>1. Shape' /\ pass' = Idle /\ UNCHANGED <<spec, authentik, skipped>>
    BY <1>1, <1>5, StatusEffect, CrashEffect, Zenon
  <2>2. Current' /\ Cleaned'
    BY <2>1, Nothing, Zenon DEF Current, Cleaned
  <2>3. NoKey' /\ Left'
    BY <1>1, <2>1, Zenon DEF NoKey, Left, Removed, Unrendered, authentik
  <2> QED
    BY <2>1, <2>2, <2>3, Zenon DEF Disposal
<1> QED
  BY <1>2, <1>3, <1>4, <1>5, Zenon

LEMMA OutsideDisposal ==
    ASSUME Disposal,
           \/ \E i \in Instances :
                \/ RunBlueprint(i) \/ BlueprintError(i)
                \/ TamperOAuth(i) \/ TamperProxy(i) \/ TamperBlueprint(i) \/ LoseCreds(i)
                \/ Create(i) \/ EditSpec(i) \/ Delete(i) \/ GraceElapses(i)
           \/ EditOutpost \/ LoseToken \/ RestoreToken \/ Trouble \/ Recover
           \/ UNCHANGED vars
    PROVE  Disposal'
<1>1. Shape /\ Current /\ NoKey /\ Cleaned /\ Left
  BY Zenon DEF Disposal
<1>2. ASSUME NEW i \in Instances, RunBlueprint(i) \/ BlueprintError(i) PROVE Disposal'
  <2>1. /\ Shape' /\ i \in queue /\ queue' = queue \ {i}
        /\ UNCHANGED <<spec, proxy, app, pass, skipped>>
        /\ \A j \in Instances \ {i} : bp'[j] = bp[j]
    BY <1>1, <1>2, RunEffect, Zenon
  <2>2. \A j \in Instances : Unrendered(j) => Unrendered(j)'
    BY <2>1, Zenon DEF Unrendered
  <2>3. Current' /\ NoKey'
    BY <1>1, <2>1, Zenon DEF Current, NoKey
  <2>4. Cleaned'
    <3>1. pass.at = "release" => pass.i \in Instances
      BY <1>1, Zenon DEF Shape
    <3> QED
      BY <1>1, <2>1, <2>2, <3>1, Zenon DEF Cleaned, Removed, Unrendered
  <2>5. Left'
    BY <1>1, <2>1, <2>2, Zenon DEF Left, Removed
  <2> QED
    BY <2>1, <2>3, <2>4, <2>5, Zenon DEF Disposal
<1>3. ASSUME NEW i \in Instances,
             TamperOAuth(i) \/ TamperProxy(i) \/ TamperBlueprint(i) \/ LoseCreds(i)
      PROVE  Disposal'
  <2>1. /\ Shape' /\ UNCHANGED <<spec, skipped>>
        /\ \A j \in Instances \ {i} :
              /\ bp'[j] = bp[j] /\ oauth'[j] = oauth[j] /\ proxy'[j] = proxy[j]
              /\ app'[j] = app[j] /\ creds'[j] = creds[j] /\ (j \in queue' <=> j \in queue)
        /\ \/ bp'[i] = bp[i] /\ (i \in queue' <=> i \in queue)
           \/ bp'[i] = NoBlueprint /\ i \notin queue'
        /\ proxy'[i] \in {NoProxy, proxy[i]} /\ (app[i] = NoApp => app'[i] = NoApp)
        /\ pass'.at = pass.at /\ pass'.i = pass.i /\ pass'.s = pass.s /\ pass'.pk = pass.pk
        /\ pass.i = i => ~pass'.fresh
        /\ pass.i # i => pass' = pass
    BY <1>1, <1>3, TamperEffect, Zenon
  <2>2. \A j \in Instances :
           /\ Unrendered(j) => Unrendered(j)'
           /\ Removed(j) => Removed(j)'
           /\ proxy'[j] \in {NoProxy, proxy[j]} /\ (app[j] = NoApp => app'[j] = NoApp)
    BY <2>1, Zenon DEF Unrendered, Removed
  <2>3. /\ pass'.at = pass.at /\ pass'.i = pass.i /\ pass'.s = pass.s /\ pass'.pk = pass.pk
        /\ pass'.fresh => pass.fresh
    BY <2>1, Zenon
  <2>4. Current'
    BY <1>1, <2>1, <2>3, Zenon DEF Current
  <2>5. NoKey'
    BY <1>1, <2>2, Zenon DEF NoKey
  <2>6. Cleaned'
    <3>1. CASE pass.at = "idle"
      BY <2>3, <3>1, Zenon DEF Cleaned
    <3>2. CASE pass.at # "idle"
      <4>1. pass.i \in Instances
        BY <1>1, <3>2, Zenon DEF Shape
      <4>2. /\ Unrendered(pass.i) => bp'[pass.i] = NoBlueprint /\ pass.i \notin queue'
            /\ Removed(pass.i) => proxy'[pass.i] = NoProxy /\ app'[pass.i] = NoApp
            /\ proxy'[pass.i] \in {NoProxy, proxy[pass.i]}
            /\ app[pass.i] = NoApp => app'[pass.i] = NoApp
        BY <2>2, <4>1, Zenon DEF Unrendered, Removed
      <4> QED
        <5> SUFFICES ASSUME pass.i \notin skipped PROVE Cleaned'
          BY <2>1, <2>3, Zenon DEF Cleaned
        <5>1. /\ pass.at \in {"fput", "fapp", "fprovider"} =>
                    proxy'[pass.i] = NoProxy \/ proxy'[pass.i].pk = pass.pk
              /\ pass.at = "fprovider" => app'[pass.i] = NoApp
          BY <1>1, <4>2, Zenon DEF Cleaned
        <5>2. /\ pass.at = "fblueprint" => proxy'[pass.i] = NoProxy /\ app'[pass.i] = NoApp
              /\ pass.at = "release" =>
                    /\ proxy'[pass.i] = NoProxy /\ app'[pass.i] = NoApp
                    /\ bp'[pass.i] = NoBlueprint /\ pass.i \notin queue'
          BY <1>1, <4>2, Zenon DEF Cleaned
        <5> QED
          BY <2>1, <2>3, <5>1, <5>2, Zenon DEF Cleaned, Removed, Unrendered
    <3> QED
      BY <3>1, <3>2, Zenon
  <2>7. Left'
    BY <1>1, <2>1, <2>2, Zenon DEF Left
  <2> QED
    BY <2>1, <2>4, <2>5, <2>6, <2>7, Zenon DEF Disposal
<1>4. ASSUME NEW i \in Instances, Create(i) \/ EditSpec(i) \/ Delete(i) PROVE Disposal'
  <2>1. /\ Shape' /\ UNCHANGED <<authentik, pass>>
        /\ spec'[i].exists /\ \A j \in Instances \ {i} : spec'[j] = spec[j]
        /\ skipped' = skipped \/ (~spec[i].exists /\ skipped' = skipped \ {i})
        /\ ~(spec[i].exists /\ spec[i].deleting)
    BY <1>1, <1>4, SpecEffect, Zenon
  <2>2. Current'
    <3>1. CASE pass.at = "idle"
      BY <2>1, <3>1, Zenon DEF Current
    <3>2. CASE pass.at # "idle"
      BY <1>1, <2>1, <3>2, Zenon DEF Current, Shape
    <3> QED
      BY <3>1, <3>2, Zenon
  <2>3. NoKey' /\ Left'
    BY <1>1, <2>1, Zenon DEF NoKey, Left, Removed, Unrendered, authentik
  <2>4. Cleaned'
    <3>1. pass.at # "idle" => (pass.i \in skipped' <=> pass.i \in skipped)
      BY <1>1, <2>1, Zenon DEF Current
    <3> QED
      BY <1>1, <2>1, <3>1, Zenon DEF Cleaned, Removed, Unrendered, authentik
  <2> QED
    BY <2>1, <2>2, <2>3, <2>4, Zenon DEF Disposal
<1>5. ASSUME \/ \E i \in Instances : GraceElapses(i)
             \/ EditOutpost \/ LoseToken \/ RestoreToken \/ Trouble \/ Recover
             \/ UNCHANGED vars
      PROVE  Disposal'
  <2>1. Shape' /\ UNCHANGED <<spec, bp, queue, proxy, app, pass, skipped>>
    <3>1. CASE UNCHANGED vars
      BY <1>1, <3>1, Zenon DEF vars, authentik, Shape
    <3>2. CASE \E i \in Instances : GraceElapses(i)
      BY <1>1, <3>2, GraceEffect, Zenon DEF authentik
    <3>3. CASE EditOutpost \/ LoseToken \/ RestoreToken \/ Trouble \/ Recover
      BY <1>1, <3>3, OutsideEffect, Zenon
    <3> QED
      BY <1>5, <3>1, <3>2, <3>3, Zenon
  <2> QED
    BY <1>1, <2>1, Zenon DEF Disposal, Current, NoKey, Cleaned, Left, Removed, Unrendered
<1> QED
  BY <1>2, <1>3, <1>4, <1>5, Zenon

LEMMA DisposalInit == Init => Disposal
<1> SUFFICES ASSUME Init PROVE Disposal
  OBVIOUS
<1>1. /\ cond = [i \in Instances |-> NoCond]
      /\ creds = [i \in Instances |-> 0] /\ made = [i \in Instances |-> 0]
      /\ bp = [i \in Instances |-> NoBlueprint] /\ queue = {}
      /\ oauth = [i \in Instances |-> NoContent]
      /\ proxy = [i \in Instances |-> NoProxy] /\ app = [i \in Instances |-> NoApp]
      /\ outpost = {Foreign} /\ pks = [i \in Instances |-> 0] /\ pass = Idle /\ skipped = {}
  BY Zenon DEF Init
<1>2. PICK rev \in [Instances -> FirstRevs] :
         spec = [i \in Instances |->
                    [exists |-> TRUE, deleting |-> FALSE, gen |-> 1, rev |-> rev[i]]]
  BY Zenon DEF Init
<1>3. spec \in [Instances -> SpecObjects] /\ \A i \in Instances : spec[i].exists
  BY <1>2, ConstantsAssumption DEF SpecObjects
<1>4. creds \in [Instances -> Nat] /\ made \in [Instances -> Nat] /\ pks \in [Instances -> Nat]
  BY <1>1
<1>5. NoProxy.pk = NoPk /\ Foreign \in Keys
  BY DEF NoProxy, Keys
<1>6. Shape
  BY <1>1, <1>3, <1>4, <1>5, Nothing, ZenonT(40) DEF Shape, KeysOf
<1>7. Current /\ Cleaned
  BY <1>1, Nothing, Zenon DEF Current, Cleaned
<1>8. NoKey /\ Left
  BY <1>1, <1>3, Zenon DEF NoKey, Left
<1> QED
  BY <1>6, <1>7, <1>8, Zenon DEF Disposal

LEMMA DisposalStep == Disposal /\ [Next]_vars => Disposal'
<1> SUFFICES ASSUME Disposal, [Next]_vars PROVE Disposal'
  OBVIOUS
<1>1. \/ BlueprintWrite \/ BlueprintApply \/ Reapply \/ upsertProxyProvider
      \/ upsertProxyApplication \/ addProviderToEmbeddedOutpost
      \/ FinalizeFind \/ removeProviderFromEmbeddedOutpost \/ deleteProxyApplication
      \/ deleteProxyProvider \/ DeleteByName
      \/ \E i \in Instances : Start(i) \/ Finalize(i)
      \/ Release \/ Status \/ Crash
      \/ \E i \in Instances :
            \/ RunBlueprint(i) \/ BlueprintError(i)
            \/ TamperOAuth(i) \/ TamperProxy(i) \/ TamperBlueprint(i) \/ LoseCreds(i)
            \/ Create(i) \/ EditSpec(i) \/ Delete(i) \/ GraceElapses(i)
      \/ EditOutpost \/ LoseToken \/ RestoreToken \/ Trouble \/ Recover \/ UNCHANGED vars
  BY Zenon DEF Next, Stages
<1> QED
  BY <1>1, ServingDisposal, CleaningDisposal, PassDisposal, OutsideDisposal, Zenon

\* An instance whose clean-up gave nothing up has left no Blueprint, provider or
\* application of its own behind, whatever was tampered with meanwhile and
\* whoever else shares the Authentik.
THEOREM NothingLeftTheorem == Spec => []NothingLeftBehind
<1>1. Disposal => NothingLeftBehind
  BY Zenon DEF Disposal, Left, NothingLeftBehind, Removed, Unrendered
<1> QED
  BY <1>1, DisposalInit, DisposalStep, PTL DEF Spec

-----------------------------------------------------------------------------
(* The updates of the shared outpost.                                      *)

LEMMA AddingInit == Init => Adding
  BY Nothing, Zenon DEF Init, Adding

LEMMA AddingStep == Disposal /\ Adding /\ [Next]_vars => Adding'
<1> SUFFICES ASSUME Disposal, Adding, [Next]_vars PROVE Adding'
  OBVIOUS
<1>1. Shape
  BY Zenon DEF Disposal
<1>2. CASE upsertProxyProvider
  <2>1. /\ Onward /\ pass'.at \in {"app", "reapply", "status"}
        /\ pass'.at = "app" => pass'.pk = proxy'[pass.i].pk
    BY <1>1, <1>2, ProxyEffect, Zenon
  <2> QED
    BY <2>1, Zenon DEF Adding, Onward
<1>3. CASE upsertProxyApplication
  <2>1. /\ Onward /\ UNCHANGED <<proxy, outpost>> /\ pass.at = "app"
        /\ pass'.at \in {"put", "status"}
        /\ pass'.at = "put" => pass'.pk = pass.pk /\ pass.pk \notin outpost
    BY <1>1, <1>3, ApplicationEffect, Zenon
  <2> QED
    BY <2>1, Zenon DEF Adding, Onward
<1>4. ASSUME NEW i \in Instances,
             TamperOAuth(i) \/ TamperProxy(i) \/ TamperBlueprint(i) \/ LoseCreds(i)
      PROVE  Adding'
  <2>1. /\ \A j \in Instances \ {i} : proxy'[j] = proxy[j]
        /\ outpost' \in {outpost, outpost \ {proxy[i].pk}}
        /\ pass.i # i => pass' = pass
        /\ pass.i = i => pass'.i = i /\ ~pass'.fresh
    BY <1>1, <1>4, TamperEffect, Zenon
  <2>2. CASE pass.i = i
    BY <2>1, <2>2, Zenon DEF Adding
  <2>3. CASE pass.i # i
    BY <1>1, <2>1, <2>3, ZenonT(40) DEF Adding, Shape
  <2> QED
    BY <2>2, <2>3, Zenon
<1>5. CASE EditOutpost \/ LoseToken \/ RestoreToken \/ Trouble \/ Recover
  <2>1. /\ UNCHANGED <<proxy, pass>>
        /\ outpost' \in {outpost, outpost \ {Foreign}, outpost \cup {Foreign}}
    BY <1>1, <1>5, OutsideEffect, Zenon
  <2>2. pass.at = "put" => pass.pk # Foreign
    <3>1. pass.at = "put" => pass.i \in Instances /\ pass.pk \in KeysOf(pass.i)
      BY <1>1, Zenon DEF Shape
    <3> QED
      BY <3>1, KeysDiffer, Zenon
  <2> QED
    BY <2>1, <2>2, Zenon DEF Adding
<1>6. CASE pass'.at \notin {"app", "put"}
  BY <1>6, Zenon DEF Adding
<1>7. CASE UNCHANGED <<proxy, outpost, pass>>
  BY <1>7, Zenon DEF Adding
<1>8. CASE BlueprintWrite \/ BlueprintApply \/ Reapply
  BY <1>1, <1>6, <1>8, BlueprintWriteEffect, ApplyEffect, Zenon
<1>9. CASE addProviderToEmbeddedOutpost
  BY <1>1, <1>6, <1>9, OutpostEffect, Zenon
<1>10. CASE FinalizeFind \/ removeProviderFromEmbeddedOutpost
  BY <1>1, <1>6, <1>10, FindEffect, RemoveEffect, Zenon
<1>11. CASE deleteProxyApplication
  BY <1>1, <1>6, <1>11, DeleteApplicationEffect, Zenon
<1>12. CASE deleteProxyProvider \/ DeleteByName
  BY <1>1, <1>6, <1>12, DeleteProviderEffect, DeleteBlueprintEffect, Zenon
<1>13. CASE Release \/ Status \/ Crash
  <2>1. pass' = Idle
    BY <1>1, <1>13, ReleaseEffect, StatusEffect, CrashEffect, Zenon
  <2> QED
    BY <1>6, <2>1, Nothing, Zenon
<1>14. CASE \E i \in Instances : Start(i) \/ Finalize(i)
  BY <1>1, <1>6, <1>14, StartEffect, FinalizeEffect, Zenon
<1>15. CASE \E i \in Instances : RunBlueprint(i) \/ BlueprintError(i)
  BY <1>1, <1>7, <1>15, RunEffect, Zenon
<1>16. CASE \E i \in Instances : Create(i) \/ EditSpec(i) \/ Delete(i)
  BY <1>1, <1>7, <1>16, SpecEffect, Zenon DEF authentik
<1>17. CASE \E i \in Instances : GraceElapses(i)
  BY <1>1, <1>7, <1>17, GraceEffect, Zenon DEF authentik
<1>18. CASE UNCHANGED vars
  BY <1>7, <1>18, Zenon DEF vars, authentik
<1> QED
  BY <1>2, <1>3, <1>4, <1>5, <1>8, <1>9, <1>10, <1>11, <1>12, <1>13, <1>14, <1>15, <1>16,
     <1>17, <1>18, ZenonT(40) DEF Next, Stages

\* Who changes the outpost between a read of it and the write back.
LEMMA OutpostWriters ==
    ASSUME Disposal, Adding, [Next]_vars, pass.at \in {"put", "fput"}, outpost' # outpost,
           pass' # pass
    PROVE  outpost' \in {pass.seen \cup {pass.pk}, pass.seen \ {pass.pk}}
<1>1. Shape /\ Current
  BY Zenon DEF Disposal
<1>2. pass.i \in Instances
  BY <1>1, Zenon DEF Shape
<1>3. CASE addProviderToEmbeddedOutpost \/ removeProviderFromEmbeddedOutpost
  BY <1>1, <1>3, OutpostEffect, RemoveEffect, Zenon
<1>4. ASSUME NEW i \in Instances,
             TamperOAuth(i) \/ TamperProxy(i) \/ TamperBlueprint(i) \/ LoseCreds(i)
      PROVE  FALSE
  <2>1. /\ outpost' = outpost \ {proxy[i].pk} /\ pass' = Stale(pass) /\ pass.i = i
    BY <1>1, <1>4, TamperEffect, Zenon
  <2>2. pass.fresh
    <3>1. pass \in Passes
      BY <1>1, Zenon DEF Shape
    <3> QED
      BY <2>1, <3>1, StaleFields, Zenon
  <2>3. pass.at = "put"
    BY <1>1, <2>2, Zenon DEF Current, Cleaning
  <2> QED
    BY <2>1, <2>2, <2>3, Zenon DEF Adding
<1>5. CASE EditOutpost \/ LoseToken \/ RestoreToken \/ Trouble \/ Recover
  BY <1>1, <1>5, OutsideEffect, Zenon
<1>6. CASE UNCHANGED outpost
  BY <1>6, Zenon
<1>7. CASE \/ BlueprintWrite \/ BlueprintApply \/ Reapply \/ upsertProxyProvider
           \/ upsertProxyApplication \/ deleteProxyProvider
  BY <1>1, <1>7, BlueprintWriteEffect, ApplyEffect, ProxyEffect, ApplicationEffect,
     DeleteProviderEffect, Zenon
<1>8. CASE FinalizeFind \/ deleteProxyApplication \/ DeleteByName
  BY <1>1, <1>8, FindEffect, DeleteApplicationEffect, DeleteBlueprintEffect, Zenon
<1>9. CASE Release \/ Status \/ Crash
  BY <1>1, <1>6, <1>9, ReleaseEffect, StatusEffect, CrashEffect, Zenon DEF authentik
<1>10. CASE \E i \in Instances : Start(i) \/ Finalize(i)
  BY <1>1, <1>10, StartEffect, FinalizeEffect, Zenon
<1>11. CASE \E i \in Instances :
               \/ RunBlueprint(i) \/ BlueprintError(i) \/ Create(i) \/ EditSpec(i)
               \/ Delete(i) \/ GraceElapses(i)
  BY <1>1, <1>6, <1>11, RunEffect, SpecEffect, GraceEffect, Zenon DEF authentik
<1>12. CASE UNCHANGED vars
  BY <1>6, <1>12, Zenon DEF vars, authentik
<1> QED
  BY <1>3, <1>4, <1>5, <1>7, <1>8, <1>9, <1>10, <1>11, <1>12, ZenonT(40) DEF Next, Stages

\* The updates of the outpost that all instances share keep every provider that
\* was read, apart from the one of the instance at hand, also when a provider is
\* deleted in Authentik between the read and the write.
THEOREM OthersKeptTheorem == Spec => OthersKept
<1>1. Init => Disposal /\ Adding
  BY DisposalInit, AddingInit, Zenon
<1>2. Disposal /\ Adding /\ [Next]_vars => Disposal' /\ Adding'
  BY DisposalStep, AddingStep, Zenon
<1>3. Disposal /\ Adding /\ [Next]_vars
      => [ pass.at \in {"put", "fput"} /\ outpost' # outpost /\ pass' # pass =>
              \A pk \in pass.seen \ {pass.pk} : pk \in outpost' ]_vars
  BY OutpostWriters, Zenon
<1> QED
  BY <1>1, <1>2, <1>3, PTL DEF Spec, OthersKept

-----------------------------------------------------------------------------
(* Generations, the queue of Authentik and the outpost that was read.      *)

LEMMA Later ==
    \A m, n \in Nat :
        /\ m <= m /\ 0 <= m
        /\ m <= n => m <= n + 1 /\ m < n + 1 /\ m # n + 1
        /\ m < n => m <= n + 1 /\ m < n + 1 /\ ~(n <= m)
  OBVIOUS

LEMMA GenerationsStep ==
    ASSUME Disposal, Generations, [Next]_vars
    PROVE  Generations'
<1>1. Shape /\ Current
  BY Zenon DEF Disposal
<1>2. /\ \A i \in Instances : spec[i].gen \in Nat /\ cond[i].gen \in Nat
      /\ pass.s.gen \in Nat
  BY <1>1, Zenon DEF Shape, SpecObjects, Conditions, Passes
<1>3. ASSUME Onward, UNCHANGED <<spec, cond, tampered>>, pass.at # "idle",
             pass'.at \in Serving => pass.at \in Serving
      PROVE  Generations'
  BY <1>3, Zenon DEF Generations, Onward
<1>4. CASE \/ BlueprintWrite \/ BlueprintApply \/ Reapply \/ upsertProxyProvider
           \/ upsertProxyApplication \/ addProviderToEmbeddedOutpost
  <2>1. Onward /\ UNCHANGED <<spec, cond, tampered>> /\ pass.at \in Serving
    BY <1>1, <1>4, BlueprintWriteEffect, ApplyEffect, ProxyEffect, ApplicationEffect,
       OutpostEffect, ZenonT(40) DEF Serving
  <2> QED
    BY <1>3, <2>1, StagesDisjoint, Zenon
<1>5. CASE \/ FinalizeFind \/ removeProviderFromEmbeddedOutpost \/ deleteProxyApplication
           \/ deleteProxyProvider \/ DeleteByName
  <2>1. /\ Onward /\ UNCHANGED <<spec, cond, tampered>> /\ pass.at \in Cleaning
        /\ pass'.at \in Cleaning
    <3>1. CASE FinalizeFind
      BY <1>1, <3>1, FindEffect, Zenon DEF Cleaning
    <3>2. CASE removeProviderFromEmbeddedOutpost
      BY <1>1, <3>2, RemoveEffect, Zenon DEF Cleaning
    <3>3. CASE deleteProxyApplication
      BY <1>1, <3>3, DeleteApplicationEffect, Zenon DEF Cleaning
    <3>4. CASE deleteProxyProvider \/ DeleteByName
      BY <1>1, <3>4, DeleteProviderEffect, DeleteBlueprintEffect, Zenon DEF Cleaning
    <3> QED
      BY <1>5, <3>1, <3>2, <3>3, <3>4, Zenon
  <2> QED
    BY <1>3, <2>1, StagesDisjoint, Zenon
<1>6. ASSUME NEW i \in Instances, Start(i) \/ Finalize(i) PROVE Generations'
  <2>1. /\ UNCHANGED <<spec, cond>> /\ pass'.i = i /\ pass'.s = spec[i]
        /\ pass'.at \in Serving => ~spec[i].deleting /\ pass'.fresh
    BY <1>1, <1>6, StartEffect, FinalizeEffect, Zenon DEF Serving
  <2> QED
    BY <1>2, <2>1, Later, Zenon DEF Generations
<1>7. CASE Release
  <2>1. /\ pass' = Idle /\ pass.i \in Instances /\ spec'[pass.i].gen = spec[pass.i].gen
        /\ cond'[pass.i].gen = 0
        /\ \A j \in Instances \ {pass.i} : spec'[j] = spec[j] /\ cond'[j] = cond[j]
    BY <1>1, <1>7, ReleaseEffect, Zenon DEF Shape
  <2>2. \A j \in Instances : cond'[j].gen <= spec'[j].gen
    BY <1>2, <2>1, Later, Zenon DEF Generations
  <2> QED
    BY <2>1, <2>2, Nothing, Zenon DEF Generations, Serving
<1>8. CASE Status
  <2>1. /\ pass' = Idle /\ pass.at = "status" /\ spec' = spec
        /\ \A j \in Instances \ {pass.i} : cond'[j] = cond[j]
        /\ cond'[pass.i] = cond[pass.i] \/ cond'[pass.i].gen = pass.s.gen
    BY <1>1, <1>8, StatusEffect, Zenon
  <2>2. \A j \in Instances : cond'[j].gen <= spec'[j].gen
    BY <2>1, Zenon DEF Generations
  <2> QED
    BY <2>1, <2>2, Nothing, Zenon DEF Generations, Serving
<1>9. CASE Crash
  BY <1>1, <1>9, CrashEffect, Nothing, Zenon DEF Generations, Serving
<1>10. ASSUME NEW i \in Instances,
              TamperOAuth(i) \/ TamperProxy(i) \/ TamperBlueprint(i) \/ LoseCreds(i)
       PROVE  Generations'
  <2>1. /\ UNCHANGED <<spec, cond>> /\ tampered' = tampered \cup {i}
        /\ pass'.at = pass.at /\ pass'.i = pass.i /\ pass'.s = pass.s
        /\ pass.i # i => pass' = pass
    BY <1>1, <1>10, TamperEffect, Zenon
  <2> QED
    BY <2>1, Zenon DEF Generations
<1>11. ASSUME NEW i \in Instances, Create(i) \/ EditSpec(i) \/ Delete(i) PROVE Generations'
  <2>1. /\ UNCHANGED <<cond, pass, tampered>>
        /\ \A j \in Instances \ {i} : spec'[j] = spec[j]
        /\ \/ ~spec[i].exists /\ spec'[i].gen = spec[i].gen + 1
           \/ spec'[i].gen = spec[i].gen + 1
           \/ spec'[i].gen = spec[i].gen /\ spec'[i].deleting
    BY <1>1, <1>11, SpecEffect, Zenon
  <2>2. cond[i].gen <= spec'[i].gen /\ spec[i].gen <= spec'[i].gen
    <3>1. cond[i].gen <= spec[i].gen /\ cond[i].gen \in Nat /\ spec[i].gen \in Nat
      BY <1>2, Zenon DEF Generations
    <3>2. CASE spec'[i].gen = spec[i].gen + 1
      BY <3>1, <3>2, SMT
    <3>3. CASE spec'[i].gen = spec[i].gen
      BY <3>1, <3>3, SMT
    <3> QED
      BY <2>1, <3>2, <3>3, Zenon
  <2>3. \A j \in Instances : cond'[j].gen <= spec'[j].gen
    BY <2>1, <2>2, Zenon DEF Generations
  <2>4. CASE pass.i # i
    BY <1>1, <2>1, <2>3, <2>4, StagesDisjoint, ZenonT(40) DEF Generations, Shape
  <2>5. CASE pass.i = i /\ pass.at \in Serving
    <3>1. /\ pass.s.gen <= spec[i].gen /\ ~pass.s.deleting
          /\ cond[i].gen <= pass.s.gen
          /\ pass.fresh \/ i \in tampered
      BY <2>5, StagesDisjoint, Zenon DEF Generations
    <3>2. pass.s.gen \in Nat /\ spec[i].gen \in Nat
      BY <1>2, Zenon
    <3>3. CASE spec'[i].gen = spec[i].gen + 1
      <4>1. pass.s.gen <= spec'[i].gen /\ pass.s.gen < spec'[i].gen
        BY <3>1, <3>2, <3>3, SMT
      <4> QED
        BY <2>1, <2>3, <2>5, <3>1, <4>1, Zenon DEF Generations
    <3>4. CASE spec'[i].gen = spec[i].gen /\ spec'[i].deleting
      BY <2>1, <2>3, <2>5, <3>1, <3>4, Zenon DEF Generations
    <3> QED
      BY <2>1, <3>3, <3>4, Zenon
  <2>6. CASE pass.i = i /\ pass.at \notin Serving
    <3>1. CASE pass.at = "idle"
      BY <2>1, <2>3, <2>6, <3>1, Zenon DEF Generations
    <3>2. CASE pass.at # "idle"
      <4>1. pass.s.gen \in Nat /\ spec[i].gen \in Nat /\ pass.s.gen <= spec[i].gen
        BY <1>2, <2>6, <3>2, Zenon DEF Generations
      <4>2. CASE spec'[i].gen = spec[i].gen + 1
        <5>1. pass.s.gen <= spec'[i].gen
          BY <4>1, <4>2, SMT
        <5> QED
          BY <2>1, <2>3, <2>6, <3>2, <5>1, Zenon DEF Generations
      <4>3. CASE spec'[i].gen = spec[i].gen
        BY <2>1, <2>3, <2>6, <3>2, <4>1, <4>3, Zenon DEF Generations
      <4> QED
        BY <2>1, <4>2, <4>3, Zenon
    <3> QED
      BY <3>1, <3>2, Zenon
  <2> QED
    BY <2>4, <2>5, <2>6, Zenon
<1>12. ASSUME NEW i \in Instances, GraceElapses(i) PROVE Generations'
  <2>1. /\ UNCHANGED <<spec, pass, tampered>> /\ \A j \in Instances : cond'[j].gen = cond[j].gen
    BY <1>1, <1>12, GraceEffect, Zenon
  <2> QED
    BY <1>1, <2>1, Zenon DEF Generations, Shape
<1>13. ASSUME UNCHANGED <<spec, cond, pass, tampered>> PROVE Generations'
  BY <1>13, Zenon DEF Generations
<1>14. CASE \E i \in Instances : RunBlueprint(i) \/ BlueprintError(i)
  BY <1>1, <1>13, <1>14, RunEffect, Zenon
<1>15. CASE EditOutpost \/ LoseToken \/ RestoreToken \/ Trouble \/ Recover
  BY <1>1, <1>13, <1>15, OutsideEffect, Zenon
<1>16. CASE UNCHANGED vars
  BY <1>13, <1>16, Zenon DEF vars
<1> QED
  BY <1>4, <1>5, <1>6, <1>7, <1>8, <1>9, <1>10, <1>11, <1>12, <1>14, <1>15, <1>16, ZenonT(40)
     DEF Next, Stages

LEMMA WorksFrame ==
    ASSUME NEW i, Works(i), bp'[i] = bp[i], oauth'[i] \in {NoContent, oauth[i]},
           i \in queue => i \in queue'
    PROVE  Works(i)'
  BY Zenon DEF Works

LEMMA NoBlueprintFields == NoBlueprint.status = "none" /\ NoBlueprint.content = NoContent
  BY DEF NoBlueprint, NoContent

LEMMA WorkingStep ==
    ASSUME ApplyOnSave, Disposal, Working, [Next]_vars
    PROVE  Working'
<1>1. Shape /\ Current
  BY Zenon DEF Disposal
<1>2. ASSUME NEW i, i = pass.i, oauth' = oauth, OnlyMine, Works(i)' PROVE Working'
  <2>1. \A j \in Instances \ {i} : Works(j)'
    BY <1>2, WorksFrame, Zenon DEF Working, OnlyMine
  <2> QED
    BY <1>2, <2>1, Zenon DEF Working
<1>3. CASE BlueprintWrite
  <2>2. PICK i \in Instances : i = pass.i
    BY <1>1, <1>3, BlueprintWriteEffect, Zenon DEF Shape
  <2>1. /\ OnlyMine /\ oauth' = oauth 
        /\ \/ bp'[i] = bp[i] /\ queue' = queue
           \/ bp'[i].status # "none" /\ i \in queue'
    BY <1>1, <1>3, <2>2, BlueprintWriteEffect, Zenon DEF Shape
  <2>3. CASE bp'[i] = bp[i] /\ queue' = queue
    <3>1. Works(i)'
      BY <2>1, <2>3, WorksFrame, Zenon DEF Working
    <3> QED
      BY <1>2, <2>1, <2>2, <3>1, Zenon
  <2>4. CASE bp'[i].status # "none" /\ i \in queue'
    <3>1. Works(i)'
      BY <2>4, Zenon DEF Works
    <3> QED
      BY <1>2, <2>1, <2>2, <3>1, Zenon
  <2> QED
    BY <2>1, <2>3, <2>4, Zenon
<1>4. CASE DeleteByName
  <2>2. PICK i \in Instances : i = pass.i
    BY <1>1, <1>4, DeleteBlueprintEffect, Zenon DEF Shape
  <2>1. /\ OnlyMine /\ oauth' = oauth 
        /\ \/ bp'[i] = bp[i] /\ queue' = queue
           \/ bp'[i] = NoBlueprint
    BY <1>1, <1>4, <2>2, DeleteBlueprintEffect, Zenon DEF Shape
  <2>3. CASE bp'[i] = bp[i] /\ queue' = queue
    <3>1. Works(i)'
      BY <2>1, <2>3, WorksFrame, Zenon DEF Working
    <3> QED
      BY <1>2, <2>1, <2>2, <3>1, Zenon
  <2>4. CASE bp'[i] = NoBlueprint
    <3>1. Works(i)'
      BY <2>4, NoBlueprintFields, Zenon DEF Works
    <3> QED
      BY <1>2, <2>1, <2>2, <3>1, Zenon
  <2> QED
    BY <2>1, <2>3, <2>4, Zenon
<1>5. ASSUME UNCHANGED <<bp, oauth>>, queue \subseteq queue' PROVE Working'
  BY <1>5, WorksFrame, Zenon DEF Working
<1>6. CASE BlueprintApply \/ Reapply
  BY <1>1, <1>5, <1>6, ApplyEffect, Zenon
<1>7. ASSUME UNCHANGED <<bp, queue, oauth>> PROVE Working'
  BY <1>5, <1>7, Zenon
<1>8. CASE upsertProxyProvider \/ upsertProxyApplication \/ addProviderToEmbeddedOutpost
  BY <1>1, <1>7, <1>8, ProxyEffect, ApplicationEffect, OutpostEffect, Zenon
<1>9. CASE removeProviderFromEmbeddedOutpost \/ deleteProxyApplication \/ deleteProxyProvider
  BY <1>1, <1>7, <1>9, RemoveEffect, DeleteApplicationEffect, DeleteProviderEffect, Zenon
<1>10. CASE FinalizeFind \/ Release \/ Status \/ Crash
  BY <1>1, <1>7, <1>10, FindEffect, ReleaseEffect, StatusEffect, CrashEffect, Zenon
     DEF authentik
<1>11. ASSUME NEW i \in Instances, RunBlueprint(i) \/ BlueprintError(i) PROVE Working'
  <2>1. /\ bp'[i].content = bp[i].content /\ queue' = queue \ {i}
        /\ \/ bp'[i].status = "successful" /\ oauth'[i] = bp[i].content
           \/ bp'[i].status = "error" /\ oauth'[i] = oauth[i]
        /\ \A j \in Instances \ {i} : bp'[j] = bp[j] /\ oauth'[j] = oauth[j]
    BY <1>1, <1>11, RunEffect, Zenon
  <2>2. Works(i)'
    <3>1. CASE bp'[i].status = "successful" /\ oauth'[i] = bp[i].content
      BY <2>1, <3>1, Zenon DEF Works
    <3>2. CASE bp'[i].status = "error"
      BY <3>2, Zenon DEF Works
    <3> QED
      BY <2>1, <3>1, <3>2, Zenon
  <2>3. \A j \in Instances \ {i} : Works(j)'
    BY <2>1, WorksFrame, Zenon DEF Working
  <2> QED
    BY <2>2, <2>3, Zenon DEF Working
<1>12. ASSUME NEW i \in Instances,
              TamperOAuth(i) \/ TamperProxy(i) \/ TamperBlueprint(i) \/ LoseCreds(i)
       PROVE  Working'
  <2>0. /\ \A j \in Instances \ {i} :
              /\ bp'[j] = bp[j] /\ oauth'[j] = oauth[j] /\ proxy'[j] = proxy[j]
              /\ app'[j] = app[j] /\ creds'[j] = creds[j] /\ (j \in queue' <=> j \in queue)
        /\ oauth'[i] \in {NoContent, oauth[i]}
    BY <1>1, <1>12, TamperEffect, Zenon
  <2>1. \/ bp'[i] = bp[i] /\ (i \in queue' <=> i \in queue)
        \/ bp'[i] = NoBlueprint
    BY <1>1, <1>12, TamperEffect, Zenon
  <2>2. CASE bp'[i] = bp[i] /\ (i \in queue' <=> i \in queue)
    BY <2>0, <2>2, WorksFrame, Zenon DEF Working
  <2>3. CASE bp'[i] = NoBlueprint
    <3>1. Works(i)'
      BY <2>3, NoBlueprintFields, Zenon DEF Works
    <3>2. \A j \in Instances \ {i} : Works(j)'
      BY <2>0, WorksFrame, Zenon DEF Working
    <3> QED
      BY <3>1, <3>2, Zenon DEF Working
  <2> QED
    BY <2>1, <2>2, <2>3, Zenon
<1>13. CASE \E i \in Instances : Create(i) \/ EditSpec(i) \/ Delete(i) \/ GraceElapses(i)
  BY <1>1, <1>7, <1>13, SpecEffect, GraceEffect, Zenon DEF authentik
<1>14. CASE \E i \in Instances : Start(i) \/ Finalize(i)
  BY <1>1, <1>7, <1>14, StartEffect, FinalizeEffect, Zenon DEF authentik
<1>15. CASE EditOutpost \/ LoseToken \/ RestoreToken \/ Trouble \/ Recover
  BY <1>1, <1>7, <1>15, OutsideEffect, Zenon
<1>16. CASE UNCHANGED vars
  BY <1>7, <1>16, Zenon DEF vars, authentik
<1> QED
  BY <1>3, <1>4, <1>6, <1>8, <1>9, <1>10, <1>11, <1>12, <1>13, <1>14, <1>15, <1>16, ZenonT(40)
     DEF Next, Stages

LEMMA SeenStep ==
    ASSUME Disposal, Seen, [Next]_vars
    PROVE  Seen'
<1>1. Shape /\ Current
  BY Zenon DEF Disposal
<1>2. ASSUME pass'.at \notin {"put", "fput"} PROVE Seen'
  BY <1>2, Zenon DEF Seen
<1>3. CASE BlueprintWrite \/ BlueprintApply \/ Reapply \/ upsertProxyProvider
  BY <1>1, <1>2, <1>3, BlueprintWriteEffect, ApplyEffect, ProxyEffect, Zenon
<1>4. CASE addProviderToEmbeddedOutpost \/ removeProviderFromEmbeddedOutpost
  BY <1>1, <1>2, <1>4, OutpostEffect, RemoveEffect, Zenon
<1>5. CASE deleteProxyApplication \/ deleteProxyProvider \/ DeleteByName
  BY <1>1, <1>2, <1>5, DeleteApplicationEffect, DeleteProviderEffect, DeleteBlueprintEffect,
     Zenon
<1>6. CASE upsertProxyApplication
  BY <1>1, <1>6, ApplicationEffect, Zenon DEF Seen
<1>7. CASE FinalizeFind
  <2>1. /\ outpost' = outpost
        /\ pass'.seen = outpost \/ pass'.at = "fblueprint"
    BY <1>1, <1>7, FindEffect, Zenon DEF authentik
  <2> QED
    BY <2>1, Zenon DEF Seen
<1>8. CASE Release \/ Status \/ Crash
  BY <1>1, <1>2, <1>8, ReleaseEffect, StatusEffect, CrashEffect, Nothing, Zenon
<1>9. CASE \E i \in Instances : Start(i) \/ Finalize(i)
  BY <1>1, <1>2, <1>9, StartEffect, FinalizeEffect, Zenon
<1>10. ASSUME UNCHANGED <<outpost, pass>> PROVE Seen'
  BY <1>10, Zenon DEF Seen
<1>11. CASE \E i \in Instances : RunBlueprint(i) \/ BlueprintError(i) \/ GraceElapses(i)
  BY <1>1, <1>10, <1>11, RunEffect, GraceEffect, Zenon DEF authentik
<1>12. CASE \E i \in Instances : Create(i) \/ EditSpec(i) \/ Delete(i)
  BY <1>1, <1>10, <1>12, SpecEffect, Zenon DEF authentik
<1>13. ASSUME NEW i \in Instances,
              TamperOAuth(i) \/ TamperProxy(i) \/ TamperBlueprint(i) \/ LoseCreds(i)
       PROVE  Seen'
  <2>1. /\ outpost' \in {outpost, outpost \ {proxy[i].pk}}
        /\ pass'.at = pass.at /\ pass'.seen = pass.seen
    BY <1>1, <1>13, TamperEffect, Zenon
  <2> QED
    BY <2>1, Zenon DEF Seen
<1>14. CASE EditOutpost \/ LoseToken \/ RestoreToken \/ Trouble \/ Recover
  <2>1. /\ outpost' \in {outpost, outpost \ {Foreign}, outpost \cup {Foreign}}
        /\ pass' = pass
    BY <1>1, <1>14, OutsideEffect, Zenon
  <2> QED
    BY <2>1, Zenon DEF Seen
<1>15. CASE UNCHANGED vars
  BY <1>10, <1>15, Zenon DEF vars, authentik
<1> QED
  BY <1>3, <1>4, <1>5, <1>6, <1>7, <1>8, <1>9, <1>11, <1>12, <1>13, <1>14, <1>15, ZenonT(40)
     DEF Next, Stages

-----------------------------------------------------------------------------
(* What a pass establishes, and what a Ready condition promises.           *)

LEMMA StillRendered ==
    ASSUME NEW i, Rendered(i), spec'[i] = spec[i], creds'[i] = creds[i],
           bp'[i].content = bp[i].content
    PROVE  Rendered(i)'
  BY Zenon DEF Rendered

LEMMA StillHosted ==
    ASSUME NEW i, Hosted(i), spec'[i] = spec[i], proxy'[i] = proxy[i]
    PROVE  Hosted(i)'
  BY Zenon DEF Hosted

LEMMA StillProtected ==
    ASSUME NEW i, Protected(i), spec'[i] = spec[i], proxy'[i] = proxy[i], app'[i] = app[i],
           proxy[i].pk # NoPk /\ proxy[i].pk \in outpost => proxy[i].pk \in outpost'
    PROVE  Protected(i)'
  BY Zenon DEF Protected, Hosted

\* The steps of the worker that serve an instance.
LEMMA EstablishedServing ==
    ASSUME Disposal, Adding, Established, pass.at \in Serving,
           \/ BlueprintWrite \/ BlueprintApply \/ Reapply \/ upsertProxyProvider
           \/ upsertProxyApplication \/ addProviderToEmbeddedOutpost
    PROVE  Established'
<1>1. Shape /\ Current
  BY Zenon DEF Disposal
<1>2. PICK i \in Instances : i = pass.i
  BY <1>1, StagesDisjoint, Zenon DEF Shape
<1>3. Onward /\ UNCHANGED <<spec, creds>>
  BY <1>1, BlueprintWriteEffect, ApplyEffect, ProxyEffect, ApplicationEffect, OutpostEffect,
     ZenonT(40)
<1>4. pass'.i = i /\ spec'[i] = spec[i] /\ creds'[i] = creds[i]
  BY <1>2, <1>3, Zenon DEF Onward
<1>5. SUFFICES ASSUME Vouches, pass.s = spec[i], pass.fresh PROVE Established'
  <2>1. Vouches' => Vouches /\ pass.s = spec[i] /\ pass.fresh
    BY <1>2, <1>3, <1>4, Zenon DEF Vouches, Onward
  <2> QED
    BY <1>5, <2>1, Zenon DEF Established
<1>6. CASE BlueprintWrite
  <2>1. /\ creds[i] # 0 /\ pass.content = RenderBlueprint(spec[i].rev, creds[i])
        /\ pass'.at \in {"apply", "proxy", "status"}
        /\ \/ pass'.at = "status" /\ pass'.out # "applied"
           \/ bp'[i].content = pass.content
        /\ pass'.at = "status" /\ pass'.out = "applied" => ~ForwardAuthRequired(spec[i].rev)
    BY <1>1, <1>2, <1>5, <1>6, BlueprintWriteEffect, Zenon DEF Established
  <2>2. CASE pass'.at = "status" /\ pass'.out # "applied"
    BY <2>2, Zenon DEF Established
  <2>3. CASE bp'[i].content = pass.content
    <3>1. Rendered(i)'
      BY <1>4, <2>1, <2>3, Zenon DEF Rendered
    <3> QED
      BY <1>4, <2>1, <3>1, Zenon DEF Established
  <2> QED
    BY <2>1, <2>2, <2>3, Zenon
<1>7. CASE BlueprintApply \/ Reapply
  <2>1. /\ Rendered(i) /\ bp' = bp /\ pass'.at \in {"proxy", "status"}
        /\ pass'.at = "status" /\ pass'.out = "applied" => ~ForwardAuthRequired(spec[i].rev)
    BY <1>1, <1>2, <1>5, <1>7, ApplyEffect, Zenon DEF Established
  <2>2. Rendered(i)'
    BY <1>4, <2>1, StillRendered, Zenon
  <2> QED
    BY <1>4, <2>1, <2>2, Zenon DEF Established
<1>8. CASE upsertProxyProvider
  <2>1. /\ Rendered(i) /\ bp' = bp /\ pass'.at \in {"app", "reapply", "status"}
        /\ pass'.at = "app" => proxy'[i].pk # NoPk /\ proxy'[i].host = spec[i].rev
        /\ pass'.at = "status" => pass'.out # "applied"
    BY <1>1, <1>2, <1>5, <1>8, ProxyEffect, Zenon DEF Established
  <2>2. Rendered(i)'
    BY <1>4, <2>1, StillRendered, Zenon
  <2>3. pass'.at = "app" => Hosted(i)'
    BY <1>4, <2>1, Zenon DEF Hosted
  <2> QED
    BY <1>4, <2>1, <2>2, <2>3, Zenon DEF Established
<1>9. CASE upsertProxyApplication
  <2>1. /\ Rendered(i) /\ Hosted(i) /\ UNCHANGED <<bp, proxy, outpost>>
        /\ pass'.at \in {"put", "status"}
        /\ pass'.at = "put" \/ pass'.out = "applied" =>
              app'[i] = [exists |-> TRUE, pk |-> pass.pk]
        /\ pass'.at = "put" => pass'.pk = pass.pk
        /\ pass'.at = "status" /\ pass'.out = "applied" => pass.pk \in outpost
    BY <1>1, <1>2, <1>5, <1>9, ApplicationEffect, Zenon DEF Established
  <2>2. proxy[i].pk = pass.pk
    BY <1>1, <1>2, <1>5, <1>9, ApplicationEffect, Zenon DEF Adding
  <2>3. Rendered(i)' /\ Hosted(i)'
    BY <1>4, <2>1, StillRendered, StillHosted, Zenon
  <2>4. CASE pass'.at = "put"
    BY <1>4, <2>1, <2>3, <2>4, Zenon DEF Established
  <2>5. CASE pass'.at = "status"
    <3>1. pass'.out = "applied" => Protected(i)'
      BY <2>1, <2>2, <2>3, <2>5, Zenon DEF Protected
    <3> QED
      BY <1>4, <2>3, <2>5, <3>1, Zenon DEF Established
  <2> QED
    BY <2>1, <2>4, <2>5, Zenon
<1>10. CASE addProviderToEmbeddedOutpost
  <2>1. /\ Rendered(i) /\ Hosted(i) /\ UNCHANGED <<bp, proxy, app>> /\ pass'.at = "status"
        /\ pass'.out = "applied" => outpost' = pass.seen \cup {pass.pk}
        /\ app[i] = [exists |-> TRUE, pk |-> pass.pk]
    BY <1>1, <1>2, <1>5, <1>10, OutpostEffect, Zenon DEF Established
  <2>2. proxy[i].pk = pass.pk
    BY <1>1, <1>2, <1>5, <1>10, OutpostEffect, Zenon DEF Adding
  <2>3. Rendered(i)' /\ Hosted(i)'
    BY <1>4, <2>1, StillRendered, StillHosted, Zenon
  <2>4. pass'.out = "applied" => Protected(i)'
    BY <2>1, <2>2, <2>3, Zenon DEF Protected
  <2> QED
    BY <1>4, <2>1, <2>3, <2>4, Zenon DEF Established
<1> QED
  BY <1>6, <1>7, <1>8, <1>9, <1>10, Zenon

\* The worker writes the outpost of others only as it read it.
LEMMA OutpostKept ==
    ASSUME Shape, Seen, NEW i \in Instances, NEW j \in Instances, i # j,
           proxy[j].pk # NoPk, proxy[j].pk \in outpost,
           \/ outpost' \in {outpost, outpost \ {Foreign}, outpost \cup {Foreign},
                            outpost \ {proxy[i].pk}}
           \/ /\ pass.at \in {"put", "fput"} /\ i = pass.i
              /\ outpost' \in {pass.seen \cup {pass.pk}, pass.seen \ {pass.pk}}
    PROVE  proxy[j].pk \in outpost'
<1>1. /\ proxy[i].pk \in KeysOf(i) /\ proxy[j].pk \in KeysOf(j)
      /\ i = pass.i => pass.pk \in KeysOf(i)
  BY Zenon DEF Shape
<1>2. proxy[j].pk \in Keys /\ proxy[j].pk # Foreign
  BY <1>1, KeysOfKeys, KeysDiffer, ZenonT(40)
<1>3. proxy[j].pk \notin KeysOf(i)
  BY <1>1, <1>2, KeysDiffer, Zenon
<1>4. proxy[j].pk # proxy[i].pk /\ (i = pass.i => proxy[j].pk # pass.pk)
  BY <1>1, <1>3, Zenon
<1> QED
  BY <1>2, <1>4, Zenon DEF Seen

\* The pass of an instance survives what happens to the others.
LEMMA EstablishedFrame ==
    ASSUME Shape, Established, UNCHANGED <<spec, creds, proxy, app>>,
           \A j \in Instances : bp'[j].content = bp[j].content,
           pass' = pass, outpost' \in {outpost, outpost \ {Foreign}, outpost \cup {Foreign}}
    PROVE  Established'
<1>1. ASSUME pass.at \in Serving PROVE Established'
  <2>1. PICK i \in Instances : i = pass.i
    BY <1>1, StagesDisjoint, Zenon DEF Shape
  <2>2. proxy[i].pk # Foreign
    <3>1. proxy[i].pk \in KeysOf(i)
      BY Zenon DEF Shape
    <3>2. Foreign \notin KeysOf(i)
      BY KeysDiffer, Zenon
    <3> QED
      BY <3>1, <3>2, Zenon
  <2>3. /\ Rendered(i) => Rendered(i)'
        /\ Hosted(i) => Hosted(i)'
        /\ Protected(i) => Protected(i)'
    BY <2>2, StillRendered, StillHosted, StillProtected, Zenon
  <2> QED
    BY <2>1, <2>3, Zenon DEF Established, Vouches
<1> QED
  BY <1>1, Zenon DEF Established, Vouches

LEMMA EstablishedStep ==
    ASSUME Disposal, Adding, Seen, Generations, Established, [Next]_vars
    PROVE  Established'
<1>1. Shape /\ Current
  BY Zenon DEF Disposal
<1>2. ASSUME ~Vouches' PROVE Established'
  BY <1>2, Zenon DEF Established
<1>3. CASE \/ BlueprintWrite \/ BlueprintApply \/ Reapply \/ upsertProxyProvider
           \/ upsertProxyApplication \/ addProviderToEmbeddedOutpost
  <2>1. pass.at \in Serving
    BY <1>1, <1>3, BlueprintWriteEffect, ApplyEffect, ProxyEffect, ApplicationEffect,
       OutpostEffect, ZenonT(40) DEF Serving
  <2> QED
    BY <1>3, <2>1, EstablishedServing, Zenon
<1>4. CASE \/ FinalizeFind \/ removeProviderFromEmbeddedOutpost \/ deleteProxyApplication
           \/ deleteProxyProvider \/ DeleteByName
  <2>1. pass.at \in Cleaning /\ pass'.fresh = pass.fresh
    <3>1. CASE FinalizeFind \/ removeProviderFromEmbeddedOutpost
      BY <1>1, <3>1, FindEffect, RemoveEffect, Zenon DEF Cleaning, Onward
    <3>2. CASE deleteProxyApplication
      BY <1>1, <3>2, DeleteApplicationEffect, Zenon DEF Cleaning, Onward
    <3>3. CASE deleteProxyProvider \/ DeleteByName
      BY <1>1, <3>3, DeleteProviderEffect, DeleteBlueprintEffect, Zenon DEF Cleaning, Onward
    <3> QED
      BY <1>4, <3>1, <3>2, <3>3, Zenon
  <2> QED
    BY <1>1, <1>2, <2>1, StagesDisjoint, Zenon DEF Vouches, Current
<1>5. ASSUME NEW i \in Instances, Start(i) PROVE Established'
  <2>1. /\ pass'.i = i /\ pass'.at \in {"blueprint", "status"} /\ pass'.out # "applied"
        /\ spec' = spec
        /\ pass'.at = "blueprint" =>
              creds'[i] # 0 /\ pass'.content = RenderBlueprint(spec[i].rev, creds'[i])
    BY <1>1, <1>5, StartEffect, Zenon
  <2> QED
    BY <2>1, Zenon DEF Established
<1>6. CASE \E i \in Instances : Finalize(i)
  BY <1>1, <1>2, <1>6, FinalizeEffect, Zenon DEF Vouches
<1>7. CASE Release \/ Status \/ Crash
  <2>1. pass' = Idle
    BY <1>1, <1>7, ReleaseEffect, StatusEffect, CrashEffect, Zenon
  <2> QED
    BY <1>2, <2>1, Nothing, Zenon DEF Vouches, Serving
<1>8. ASSUME NEW i \in Instances,
             TamperOAuth(i) \/ TamperProxy(i) \/ TamperBlueprint(i) \/ LoseCreds(i)
      PROVE  Established'
  <2>1. CASE pass.i = i
    <3>1. ~pass'.fresh
      BY <1>1, <1>8, <2>1, TamperEffect, Zenon
    <3> QED
      BY <1>2, <3>1, Zenon DEF Vouches
  <2>2. CASE pass.i # i /\ pass.at \in Serving
    <3>1. PICK j \in Instances : j = pass.i
      BY <1>1, <2>2, StagesDisjoint, Zenon DEF Shape
    <3>2. /\ pass' = pass /\ spec' = spec
          /\ bp'[j] = bp[j] /\ proxy'[j] = proxy[j] /\ app'[j] = app[j] /\ creds'[j] = creds[j]
      BY <1>1, <1>8, <2>2, <3>1, TamperEffect, Zenon
    <3>3. outpost' \in {outpost, outpost \ {proxy[i].pk}}
      BY <1>1, <1>8, TamperEffect, Zenon
    <3>4. proxy[j].pk # NoPk /\ proxy[j].pk \in outpost => proxy[j].pk \in outpost'
      BY <1>1, <2>2, <3>1, <3>3, OutpostKept, Zenon
    <3>5. /\ Rendered(j) => Rendered(j)'
          /\ Hosted(j) => Hosted(j)'
          /\ Protected(j) => Protected(j)'
      BY <3>2, <3>4, StillRendered, StillHosted, StillProtected, Zenon
    <3> QED
      BY <3>1, <3>2, <3>5, Zenon DEF Established, Vouches
  <2>3. CASE pass.at \notin Serving
    <3>1. pass'.at = pass.at
      BY <1>1, <1>8, TamperEffect, Zenon
    <3> QED
      BY <1>2, <2>3, <3>1, Zenon DEF Vouches
  <2> QED
    BY <2>1, <2>2, <2>3, Zenon
<1>9. ASSUME NEW i \in Instances, Create(i) \/ EditSpec(i) \/ Delete(i) PROVE Established'
  <2>1. /\ UNCHANGED <<creds, bp, proxy, app, outpost, pass>>
        /\ \A j \in Instances \ {i} : spec'[j] = spec[j]
        /\ \/ spec'[i].gen = spec[i].gen + 1
           \/ spec'[i].deleting
    BY <1>1, <1>9, SpecEffect, Zenon DEF authentik
  <2>2. CASE pass.at \in Serving /\ pass.i = i
    <3>1. pass.s.gen <= spec[i].gen /\ ~pass.s.deleting
      BY <2>2, StagesDisjoint, Zenon DEF Generations
    <3>2. pass.s.gen \in Nat /\ spec[i].gen \in Nat
      BY <1>1, Zenon DEF Shape, Passes, SpecObjects
    <3>3. spec'[i].gen = spec[i].gen + 1 => pass.s.gen # spec'[i].gen
      BY <3>1, <3>2, SMT
    <3>4. pass.s # spec'[i]
      BY <2>1, <3>1, <3>3, Zenon
    <3> QED
      BY <1>2, <2>1, <2>2, <3>4, Zenon DEF Vouches
  <2>3. CASE pass.at \in Serving /\ pass.i # i
    <3>1. PICK j \in Instances : j = pass.i
      BY <1>1, <2>3, StagesDisjoint, Zenon DEF Shape
    <3>2. spec'[j] = spec[j]
      BY <2>1, <2>3, <3>1, Zenon
    <3>3. /\ Rendered(j) => Rendered(j)'
          /\ Hosted(j) => Hosted(j)'
          /\ Protected(j) => Protected(j)'
      BY <2>1, <3>2, StillRendered, StillHosted, StillProtected, Zenon
    <3> QED
      BY <2>1, <3>1, <3>2, <3>3, Zenon DEF Established, Vouches
  <2>4. CASE pass.at \notin Serving
    BY <1>2, <2>1, <2>4, Zenon DEF Vouches
  <2> QED
    BY <2>2, <2>3, <2>4, Zenon
<1>10. ASSUME NEW i \in Instances, RunBlueprint(i) \/ BlueprintError(i) PROVE Established'
  <2>1. /\ UNCHANGED <<spec, creds, proxy, app, outpost, pass>>
        /\ \A j \in Instances : bp'[j].content = bp[j].content
    BY <1>1, <1>10, RunEffect, Zenon
  <2> QED
    BY <1>1, <2>1, EstablishedFrame, Zenon
<1>11. CASE \E i \in Instances : GraceElapses(i)
  BY <1>1, <1>11, GraceEffect, EstablishedFrame, Zenon DEF authentik
<1>12. CASE EditOutpost \/ LoseToken \/ RestoreToken \/ Trouble \/ Recover
  BY <1>1, <1>12, OutsideEffect, EstablishedFrame, Zenon
<1>13. CASE UNCHANGED vars
  BY <1>1, <1>13, EstablishedFrame, Zenon DEF vars, authentik
<1> QED
  BY <1>3, <1>4, <1>5, <1>6, <1>7, <1>8, <1>9, <1>10, <1>11, <1>12, <1>13, ZenonT(40)
     DEF Next, Stages

LEMMA StillVouched ==
    ASSUME NEW i, Vouched(i), spec'[i] = spec[i], creds'[i] = creds[i],
           bp'[i].content = bp[i].content, proxy'[i] = proxy[i], app'[i] = app[i],
           proxy[i].pk # NoPk /\ proxy[i].pk \in outpost => proxy[i].pk \in outpost'
    PROVE  Vouched(i)'
<1>1. Rendered(i)'
  BY StillRendered, Zenon DEF Vouched
<1>2. ForwardAuthRequired(spec[i].rev) => Protected(i)'
  BY StillProtected, Zenon DEF Vouched
<1> QED
  BY <1>1, <1>2, Zenon DEF Vouched

\* A Ready condition whose grounds do not change.
LEMMA StillReady ==
    ASSUME NEW i, Ready(i)', spec'[i] = spec[i], cond'[i].result = cond[i].result,
           cond'[i].gen = cond[i].gen, i \in tampered => i \in tampered'
    PROVE  Ready(i)
  BY Zenon DEF Ready

\* A pass on an instance that is ready serves its current spec undisturbed.
LEMMA ReadyVouches ==
    ASSUME Shape, Generations, pass.at \in Serving, NEW i \in Instances, i = pass.i, Ready(i)
    PROVE  Vouches /\ pass.s = spec[i] /\ pass.fresh
<1>1. /\ spec[i].gen <= pass.s.gen /\ ~spec[i].deleting /\ pass.fresh
      /\ pass.s = spec[i] \/ pass.s.gen < spec[i].gen
  BY StagesDisjoint, Zenon DEF Generations, Ready
<1>2. pass.s.gen \in Nat /\ spec[i].gen \in Nat
  BY Zenon DEF Shape, Passes, SpecObjects
<1>3. ~(pass.s.gen < spec[i].gen)
  BY <1>1, <1>2, SMT
<1> QED
  BY <1>1, <1>3, Zenon DEF Vouches

\* The steps of the worker that serve an instance do not disturb a Ready one.
LEMMA PromisedServing ==
    ASSUME Disposal, Adding, Generations, Established, pass.at \in Serving, Promised,
           NEW i \in Instances, i = pass.i, Ready(i),
           \/ BlueprintWrite \/ BlueprintApply \/ Reapply \/ upsertProxyProvider
           \/ upsertProxyApplication \/ addProviderToEmbeddedOutpost
    PROVE  Vouched(i)'
<1>1. Shape
  BY Zenon DEF Disposal
<1>2. Vouches /\ pass.s = spec[i] /\ pass.fresh
  BY <1>1, ReadyVouches, Zenon
<1>3. Vouched(i)
  BY Zenon DEF Promised
<1>4. CASE BlueprintWrite
  <2>1. bp[i].content = pass.content
    <3>1. pass.content = RenderBlueprint(spec[i].rev, creds[i])
      BY <1>1, <1>2, <1>4, BlueprintWriteEffect, Zenon DEF Established
    <3> QED
      BY <1>3, <3>1, Zenon DEF Vouched, Rendered
  <2>2. UNCHANGED <<spec, creds, proxy, app, outpost>> /\ bp'[i] = bp[i]
    BY <1>1, <1>4, <2>1, BlueprintWriteEffect, Zenon
  <2> QED
    BY <1>3, <2>2, StillVouched, Zenon
<1>5. CASE BlueprintApply \/ Reapply
  <2>1. UNCHANGED <<spec, creds, bp, proxy, app, outpost>>
    BY <1>1, <1>5, ApplyEffect, Zenon
  <2> QED
    BY <1>3, <2>1, StillVouched, Zenon
<1>6. CASE upsertProxyProvider
  <2>1. /\ UNCHANGED <<spec, creds, bp, app, outpost>>
        /\ \/ proxy'[i] = proxy[i]
           \/ ~proxyProviderMatches(proxy[i], spec[i].rev)
    BY <1>1, <1>2, <1>6, ProxyEffect, Zenon
  <2>2. CASE proxy'[i] = proxy[i]
    BY <1>3, <2>1, <2>2, StillVouched, Zenon
  <2>3. CASE ~proxyProviderMatches(proxy[i], spec[i].rev)
    <3>1. ~Hosted(i)
      BY <2>3, Zenon DEF proxyProviderMatches, UIProxyExternalHost, Hosted
    <3>2. Rendered(i) /\ ~ForwardAuthRequired(spec[i].rev)
      BY <1>3, <3>1, Zenon DEF Vouched, Protected
    <3>3. Rendered(i)' /\ spec'[i] = spec[i]
      BY <2>1, <3>2, StillRendered, Zenon
    <3> QED
      BY <3>2, <3>3, Zenon DEF Vouched
  <2> QED
    BY <2>1, <2>2, <2>3, Zenon
<1>7. CASE upsertProxyApplication
  <2>1. /\ UNCHANGED <<spec, creds, bp, proxy, outpost>> /\ pass.at = "app"
        /\ app'[i] \in {app[i], [exists |-> TRUE, pk |-> pass.pk]}
    BY <1>1, <1>7, ApplicationEffect, Zenon
  <2>2. proxy[i].pk = pass.pk
    BY <1>2, <2>1, Zenon DEF Adding
  <2>3. Rendered(i)'
    BY <1>3, <2>1, StillRendered, Zenon DEF Vouched
  <2>4. ForwardAuthRequired(spec[i].rev) => Protected(i)'
    BY <1>3, <2>1, <2>2, Zenon DEF Vouched, Protected, Hosted
  <2> QED
    BY <2>1, <2>3, <2>4, Zenon DEF Vouched
<1>8. CASE addProviderToEmbeddedOutpost
  <2>1. /\ UNCHANGED <<spec, creds, bp, proxy, app>> /\ pass.at = "put"
        /\ outpost' \in {outpost, pass.seen \cup {pass.pk}}
    BY <1>1, <1>8, OutpostEffect, Zenon
  <2>2. proxy[i].pk = pass.pk
    BY <1>2, <2>1, Zenon DEF Adding
  <2> QED
    BY <1>3, <2>1, <2>2, StillVouched, Zenon
<1> QED
  BY <1>4, <1>5, <1>6, <1>7, <1>8, Zenon

\* What the worker may do to the instance at hand leaves the others alone.
LEMMA PromisedOthers ==
    ASSUME Shape, Seen, Promised, NEW i \in Instances, NEW j \in Instances, i # j, Ready(j)',
           spec'[j] = spec[j], cond'[j] = cond[j], j \in tampered => j \in tampered',
           creds'[j] = creds[j], bp'[j] = bp[j], oauth'[j] = oauth[j],
           proxy'[j] = proxy[j], app'[j] = app[j],
           \/ outpost' \in {outpost, outpost \ {Foreign}, outpost \cup {Foreign},
                            outpost \ {proxy[i].pk}}
           \/ /\ pass.at \in {"put", "fput"} /\ i = pass.i
              /\ outpost' \in {pass.seen \cup {pass.pk}, pass.seen \ {pass.pk}}
    PROVE  Vouched(j)' /\ oauth'[j] # NoContent
<1>1. Ready(j)
  BY StillReady, Zenon
<1>2. Vouched(j) /\ oauth[j] # NoContent
  BY <1>1, Zenon DEF Promised
<1>3. proxy[j].pk # NoPk /\ proxy[j].pk \in outpost => proxy[j].pk \in outpost'
  BY OutpostKept, Zenon
<1> QED
  BY <1>2, <1>3, StillVouched, Zenon

LEMMA PromisedFrame ==
    ASSUME Shape, Promised, UNCHANGED <<spec, oauth, proxy, app>>,
           tampered \subseteq tampered',
           outpost' \in {outpost, outpost \ {Foreign}, outpost \cup {Foreign}},
           \A j \in Instances :
                /\ cond'[j].result = cond[j].result /\ cond'[j].gen = cond[j].gen
                /\ creds[j] # 0 => creds'[j] = creds[j]
                /\ bp'[j].content = bp[j].content
    PROVE  Promised'
<1>1. SUFFICES ASSUME NEW j \in Instances, Ready(j)'
               PROVE  Vouched(j)' /\ oauth'[j] # NoContent
  BY <1>1, Zenon DEF Promised
<1>2. Ready(j)
  BY <1>1, StillReady, Zenon
<1>3. Vouched(j) /\ oauth[j] # NoContent
  BY <1>2, Zenon DEF Promised
<1>4. proxy[j].pk # Foreign
  <2>1. proxy[j].pk \in KeysOf(j)
    BY Zenon DEF Shape
  <2>2. Foreign \notin KeysOf(j)
    BY KeysDiffer, Zenon
  <2> QED
    BY <2>1, <2>2, Zenon
<1>5. creds'[j] = creds[j]
  BY <1>3, Zenon DEF Vouched, Rendered
<1> QED
  BY <1>3, <1>4, <1>5, StillVouched, Zenon

LEMMA RenderedSomething ==
    ASSUME NEW i, Rendered(i)
    PROVE  bp[i].content # NoContent
<1>1. \A rev, secret : RenderBlueprint(rev, secret).creds = secret
  BY DEF RenderBlueprint, blueprintEntries
<1>2. NoContent.creds = 0
  BY DEF NoContent
<1> QED
  BY <1>1, <1>2, ZenonT(40) DEF Rendered

LEMMA PromisedStep ==
    ASSUME Disposal, Adding, Generations, Established, Seen, Promised, [Next]_vars
    PROVE  Promised'
<1>1. Shape /\ Current
  BY Zenon DEF Disposal
<1>2. ASSUME NEW i \in Instances, i = pass.i, OnlyMine,
             UNCHANGED <<spec, cond, creds, oauth, tampered>>,
             \/ outpost' \in {outpost, outpost \ {proxy[i].pk}}
             \/ /\ pass.at \in {"put", "fput"}
                /\ outpost' \in {pass.seen \cup {pass.pk}, pass.seen \ {pass.pk}},
             Ready(i)' => Vouched(i)'
      PROVE  Promised'
  <2>1. ASSUME NEW j \in Instances, j # i, Ready(j)' PROVE Vouched(j)' /\ oauth'[j] # NoContent
    <3>1. bp'[j] = bp[j] /\ proxy'[j] = proxy[j] /\ app'[j] = app[j]
      BY <1>2, <2>1, Zenon DEF OnlyMine
    <3> QED
      BY <1>1, <1>2, <2>1, <3>1, PromisedOthers, Zenon
  <2>2. Ready(i)' => oauth'[i] # NoContent
    BY <1>2, StillReady, Zenon DEF Promised
  <2> QED
    BY <1>2, <2>1, <2>2, Zenon DEF Promised
<1>3. CASE \/ BlueprintWrite \/ BlueprintApply \/ Reapply \/ upsertProxyProvider
           \/ upsertProxyApplication \/ addProviderToEmbeddedOutpost
  <2>1. /\ OnlyMine /\ UNCHANGED <<spec, cond, creds, oauth, tampered>>
        /\ \/ outpost' = outpost
           \/ pass.at = "put" /\ outpost' = pass.seen \cup {pass.pk}
        /\ pass.at \in Serving
    <3>1. CASE BlueprintWrite \/ BlueprintApply \/ Reapply
      BY <1>1, <3>1, BlueprintWriteEffect, ApplyEffect, Zenon DEF Serving
    <3>2. CASE upsertProxyProvider \/ upsertProxyApplication
      BY <1>1, <3>2, ProxyEffect, ApplicationEffect, Zenon DEF Serving
    <3>3. CASE addProviderToEmbeddedOutpost
      BY <1>1, <3>3, OutpostEffect, Zenon DEF Serving
    <3> QED
      BY <1>3, <3>1, <3>2, <3>3, Zenon
  <2>2. PICK i \in Instances : i = pass.i
    BY <1>1, <2>1, StagesDisjoint, Zenon DEF Shape
  <2>3. Ready(i)' => Ready(i)
    BY <2>1, StillReady, Zenon
  <2>4. Ready(i)' => Vouched(i)'
    BY <1>3, <2>1, <2>2, <2>3, PromisedServing, Zenon
  <2> QED
    BY <1>2, <2>1, <2>2, <2>4, Zenon
<1>4. CASE \/ FinalizeFind \/ removeProviderFromEmbeddedOutpost \/ deleteProxyApplication
           \/ deleteProxyProvider \/ DeleteByName
  <2>1. /\ OnlyMine /\ UNCHANGED <<spec, cond, creds, oauth, tampered>>
        /\ \/ outpost' \in {outpost, outpost \ {proxy[pass.i].pk}}
           \/ pass.at = "fput" /\ outpost' = pass.seen \ {pass.pk}
        /\ pass.at \in Cleaning
    <3>1. CASE FinalizeFind
      BY <1>1, <3>1, FindEffect, Zenon DEF Cleaning, OnlyMine, authentik
    <3>2. CASE removeProviderFromEmbeddedOutpost
      BY <1>1, <3>2, RemoveEffect, Zenon DEF Cleaning, OnlyMine
    <3>3. CASE deleteProxyApplication \/ DeleteByName
      BY <1>1, <3>3, DeleteApplicationEffect, DeleteBlueprintEffect, Zenon DEF Cleaning
    <3>4. CASE deleteProxyProvider
      BY <1>1, <3>4, DeleteProviderEffect, Zenon DEF Cleaning
    <3> QED
      BY <1>4, <3>1, <3>2, <3>3, <3>4, Zenon
  <2>2. PICK i \in Instances : i = pass.i
    BY <1>1, <2>1, StagesDisjoint, Zenon DEF Shape
  <2>3. ~Ready(i)'
    <3>1. spec[i].deleting
      BY <1>1, <2>1, <2>2, StagesDisjoint, Zenon DEF Current
    <3> QED
      BY <2>1, <3>1, Zenon DEF Ready
  <2> QED
    BY <1>2, <2>1, <2>2, <2>3, Zenon
<1>5. ASSUME NEW i \in Instances, Start(i) PROVE Promised'
  BY <1>1, <1>5, StartEffect, PromisedFrame, Zenon DEF authentik
<1>6. CASE \E i \in Instances : Finalize(i)
  BY <1>1, <1>6, FinalizeEffect, PromisedFrame, Zenon DEF authentik
<1>7. CASE Release
  <2>1. /\ UNCHANGED <<bp, oauth, proxy, app, outpost, tampered>>
        /\ pass.i \in Instances /\ ~spec'[pass.i].exists
        /\ \A j \in Instances \ {pass.i} :
              spec'[j] = spec[j] /\ cond'[j] = cond[j] /\ creds'[j] = creds[j]
    BY <1>1, <1>7, ReleaseEffect, Zenon DEF authentik, Shape
  <2>2. ASSUME NEW j \in Instances, Ready(j)' PROVE Vouched(j)' /\ oauth'[j] # NoContent
    <3>1. j # pass.i
      BY <2>1, <2>2, Zenon DEF Ready
    <3> QED
      BY <1>1, <2>1, <2>2, <3>1, PromisedOthers, Zenon
  <2> QED
    BY <2>2, Zenon DEF Promised
<1>8. CASE Status
  <2>1. PICK i \in Instances : i = pass.i
    BY <1>1, <1>8, StatusEffect, Zenon DEF Shape
  <2>2. /\ UNCHANGED <<spec, creds, bp, oauth, proxy, app, outpost>> /\ pass.at = "status"
        /\ \A j \in Instances \ {i} :
              cond'[j] = cond[j] /\ (j \in tampered' <=> j \in tampered)
    BY <1>1, <1>8, <2>1, StatusEffect, Zenon DEF authentik
  <2>3. \/ cond'[i] = cond[i] /\ tampered' = tampered
        \/ /\ spec[i] = pass.s
           /\ cond'[i].result = "Ready" => pass.out = "applied" /\ oauth[i] # NoContent
           /\ pass.fresh \/ tampered' = tampered
    BY <1>1, <1>8, <2>1, StatusEffect, Zenon
  <2>4. ASSUME Ready(i)' PROVE Vouched(i) /\ oauth[i] # NoContent
    <3>1. CASE cond'[i] = cond[i] /\ tampered' = tampered
      BY <2>2, <2>4, <3>1, StillReady, Zenon DEF Promised
    <3>2. CASE /\ spec[i] = pass.s
               /\ cond'[i].result = "Ready" => pass.out = "applied" /\ oauth[i] # NoContent
               /\ pass.fresh \/ tampered' = tampered
      <4>1. pass.at \in Serving
        BY <2>2, Zenon DEF Serving
      <4>2. pass.fresh
        BY <2>1, <2>4, <3>2, <4>1, Zenon DEF Ready, Generations
      <4>3. pass.out = "applied" /\ oauth[i] # NoContent
        BY <2>4, <3>2, Zenon DEF Ready
      <4>4. Vouches
        BY <2>1, <3>2, <4>1, <4>2, Zenon DEF Vouches
      <4> QED
        BY <2>1, <2>2, <4>3, <4>4, Zenon DEF Established, Vouched
    <3> QED
      BY <2>3, <3>1, <3>2, Zenon
  <2>5. Ready(i)' => Vouched(i)' /\ oauth'[i] # NoContent
    BY <2>2, <2>4, StillVouched, Zenon
  <2>6. ASSUME NEW j \in Instances, j # i, Ready(j)' PROVE Vouched(j)' /\ oauth'[j] # NoContent
    BY <1>1, <2>2, <2>6, PromisedOthers, Zenon
  <2> QED
    BY <2>5, <2>6, Zenon DEF Promised
<1>9. CASE Crash
  BY <1>1, <1>9, CrashEffect, PromisedFrame, Zenon DEF authentik
<1>10. ASSUME NEW i \in Instances,
              TamperOAuth(i) \/ TamperProxy(i) \/ TamperBlueprint(i) \/ LoseCreds(i)
       PROVE  Promised'
  <2>1. UNCHANGED <<spec, cond>> /\ tampered' = tampered \cup {i}
    BY <1>1, <1>10, TamperEffect, Zenon
  <2>2. \A j \in Instances \ {i} :
           /\ bp'[j] = bp[j] /\ oauth'[j] = oauth[j] /\ proxy'[j] = proxy[j]
           /\ app'[j] = app[j] /\ creds'[j] = creds[j] /\ (j \in queue' <=> j \in queue)
    BY <1>1, <1>10, TamperEffect, Zenon
  <2>3. outpost' \in {outpost, outpost \ {proxy[i].pk}}
    BY <1>1, <1>10, TamperEffect, Zenon
  <2>4. ASSUME NEW j \in Instances, Ready(j)' PROVE Vouched(j)' /\ oauth'[j] # NoContent
    <3>1. j # i
      BY <2>1, <2>4, Zenon DEF Ready
    <3> QED
      BY <1>1, <2>1, <2>2, <2>3, <2>4, <3>1, PromisedOthers, ZenonT(40)
  <2> QED
    BY <2>4, Zenon DEF Promised
<1>11. ASSUME NEW i \in Instances, Create(i) \/ EditSpec(i) \/ Delete(i) PROVE Promised'
  <2>1. /\ UNCHANGED <<cond, creds, bp, oauth, proxy, app, outpost, tampered>>
        /\ \A j \in Instances \ {i} : spec'[j] = spec[j]
        /\ \/ spec'[i].gen = spec[i].gen + 1
           \/ spec'[i].deleting
    BY <1>1, <1>11, SpecEffect, Zenon DEF authentik
  <2>2. ~Ready(i)'
    <3>1. cond[i].gen \in Nat /\ spec[i].gen \in Nat /\ cond[i].gen <= spec[i].gen
      BY <1>1, Zenon DEF Shape, Conditions, SpecObjects, Generations
    <3>2. cond[i].gen # spec[i].gen + 1
      BY <3>1, SMT
    <3> QED
      BY <2>1, <3>2, Zenon DEF Ready
  <2>3. ASSUME NEW j \in Instances, Ready(j)' PROVE Vouched(j)' /\ oauth'[j] # NoContent
    <3>1. j # i
      BY <2>2, <2>3, Zenon
    <3> QED
      BY <1>1, <2>1, <2>3, <3>1, PromisedOthers, Zenon
  <2> QED
    BY <2>3, Zenon DEF Promised
<1>12. ASSUME NEW i \in Instances, RunBlueprint(i) \/ BlueprintError(i) PROVE Promised'
  <2>1. /\ UNCHANGED <<spec, cond, creds, proxy, app, outpost, tampered>>
        /\ bp'[i].content = bp[i].content /\ oauth'[i] \in {bp[i].content, oauth[i]}
        /\ \A j \in Instances \ {i} : bp'[j] = bp[j] /\ oauth'[j] = oauth[j]
    BY <1>1, <1>12, RunEffect, Zenon
  <2>2. ASSUME Ready(i)' PROVE Vouched(i)' /\ oauth'[i] # NoContent
    <3>1. Vouched(i) /\ oauth[i] # NoContent
      BY <2>1, <2>2, StillReady, Zenon DEF Promised
    <3>2. bp[i].content # NoContent
      BY <3>1, RenderedSomething, Zenon DEF Vouched
    <3> QED
      BY <2>1, <3>1, <3>2, StillVouched, Zenon
  <2>3. ASSUME NEW j \in Instances, j # i, Ready(j)' PROVE Vouched(j)' /\ oauth'[j] # NoContent
    BY <1>1, <2>1, <2>3, PromisedOthers, Zenon
  <2> QED
    BY <2>2, <2>3, Zenon DEF Promised
<1>13. ASSUME NEW i \in Instances, GraceElapses(i) PROVE Promised'
  <2>1. /\ UNCHANGED <<spec, creds, bp, oauth, proxy, app, outpost, tampered>>
        /\ \A j \in Instances : cond'[j].result = cond[j].result /\ cond'[j].gen = cond[j].gen
    BY <1>1, <1>13, GraceEffect, Zenon DEF authentik
  <2> QED
    BY <1>1, <2>1, PromisedFrame, Zenon
<1>14. CASE EditOutpost \/ LoseToken \/ RestoreToken \/ Trouble \/ Recover
  BY <1>1, <1>14, OutsideEffect, PromisedFrame, Zenon
<1>15. CASE UNCHANGED vars
  BY <1>1, <1>15, PromisedFrame, Zenon DEF vars, authentik
<1> QED
  BY <1>3, <1>4, <1>5, <1>6, <1>7, <1>8, <1>9, <1>10, <1>11, <1>12, <1>13, <1>14, <1>15,
     Zenon DEF Next, Stages

LEMMA FaithfulInit == Init => Faithful
<1> SUFFICES ASSUME Init PROVE Faithful
  OBVIOUS
<1>1. \A i \in Instances : cond[i] = NoCond /\ bp[i] = NoBlueprint /\ spec[i].gen = 1
  <2>1. \A i \in Instances : cond[i] = NoCond /\ bp[i] = NoBlueprint
    BY Zenon DEF Init
  <2>2. PICK rev \in [Instances -> FirstRevs] :
           spec = [i \in Instances |->
                      [exists |-> TRUE, deleting |-> FALSE, gen |-> 1, rev |-> rev[i]]]
    BY Zenon DEF Init
  <2>3. \A i \in Instances : spec[i].gen = 1
    BY <2>2
  <2> QED
    BY <2>1, <2>3, Zenon
<1>9. pass = Idle
  BY Zenon DEF Init
<1>2. pass.at \notin Serving /\ pass.at = "idle"
  BY <1>9, Nothing, Zenon DEF Serving
<1>3. NoCond.gen = 0 /\ NoCond.result = "none" /\ 0 <= 1
  BY SMT DEF NoCond
<1>4. Generations
  BY <1>1, <1>2, <1>3, Zenon DEF Generations
<1>5. Established
  BY <1>2, Zenon DEF Established, Vouches
<1>6. Working
  BY <1>1, NoBlueprintFields, Zenon DEF Working, Works
<1>7. Seen
  BY <1>2, Zenon DEF Seen
<1>8. Promised
  BY <1>1, <1>3, Zenon DEF Promised, Ready
<1> QED
  BY <1>4, <1>5, <1>6, <1>7, <1>8, Zenon DEF Faithful

\* When a Blueprint is applied as it is saved, an instance whose status reports
\* its identity as ready (Status, after the stages of a whole pass) is
\* protected by the outpost and served from the Blueprint of its current spec
\* and credentials, unless somebody changed that since: for every number of
\* instances that share the Authentik, and every order of passes, edits,
\* deletions, refused or lost calls and restarts.
THEOREM ReadyIsTrueTheorem == ASSUME ApplyOnSave PROVE Spec => []ReadyIsTrue
<1>1. Init => Disposal /\ Adding /\ Faithful
  BY DisposalInit, AddingInit, FaithfulInit, Zenon
<1>2. ASSUME Disposal, Adding, Faithful, [Next]_vars
      PROVE  (Disposal /\ Adding /\ Faithful)'
  <2>1. Disposal'
    BY <1>2, DisposalStep, Zenon
  <2>2. Adding'
    BY <1>2, AddingStep, Zenon
  <2>3. Generations' /\ Working' /\ Seen'
    BY <1>2, GenerationsStep, WorkingStep, SeenStep, Zenon DEF Faithful
  <2>4. Established' /\ Promised'
    BY <1>2, EstablishedStep, PromisedStep, Zenon DEF Faithful
  <2> QED
    BY <2>1, <2>2, <2>3, <2>4, Zenon DEF Faithful
<1>3. ASSUME Disposal, Adding, Faithful PROVE ReadyIsTrue
  <2>1. ASSUME NEW i \in Instances, Ready(i)
        PROVE  /\ oauth[i] # NoContent /\ Rendered(i)
               /\ ForwardAuthRequired(spec[i].rev) => Protected(i)
    BY <1>3, <2>1, Zenon DEF Faithful, Promised, Vouched
  <2>2. ReadyIsProtected
    BY <2>1, Zenon DEF ReadyIsProtected, Protected, Hosted
  <2>3. ASSUME NEW i \in Instances, Ready(i)
        PROVE  oauth[i] = bp[i].content \/ i \in queue \/ bp[i].status = "error"
    <3>1. Works(i)
      BY <1>3, Zenon DEF Faithful, Working
    <3>2. bp[i].content # NoContent
      BY <2>1, <2>3, RenderedSomething, Zenon
    <3> QED
      BY <2>1, <2>3, <3>1, <3>2, Zenon DEF Works
  <2>4. ReadyIsApplied
    BY <2>1, <2>3, Zenon DEF ReadyIsApplied, Rendered
  <2> QED
    BY <2>2, <2>4, Zenon DEF ReadyIsTrue
<1> QED
  BY <1>1, <1>2, <1>3, PTL DEF Spec

=============================================================================
