------------------------------ MODULE Identity ------------------------------
(***************************************************************************)
(* The identity stages of the Tamoss controller against one Authentik that *)
(* several instances share: the OAuth2 credentials, the managed Blueprint, *)
(* the proxy provider, its application and the embedded outpost that       *)
(* serves everybody's providers, and the clean-up of all of them.          *)
(*                                                                         *)
(* The controller has one worker.  A pass is a sequence of steps, one per  *)
(* write to Authentik, each with the reads that decide it.  Authentik      *)
(* applies Blueprints on its own, after it has answered the apply call.    *)
(* Every instance that uses Authentik is requeued after the probe          *)
(* interval whatever the outcome, so that a pass may always start.         *)
(***************************************************************************)
EXTENDS Integers

CONSTANTS
    Instances,
    Namespace,   \* [Revs -> the platform namespace of the Authentik it names]
    Configured,  \* the allow-list of the operator; {} trusts the first seen
    Revs,        \* contents of spec.auth and of the hosts it depends on
    FirstRevs,   \* the ones the instances are first created with
    NoAuth,      \* the ones that do not use Authentik
    NoRedirect,  \* the ones from which no redirect URI can be derived
    BadHost,     \* the ones whose public UI URL is not an origin of the host
    NoForward,   \* the ones that need no forward authentication
    ApplyOnSave, \* Authentik applies a Blueprint when it is saved
    MaxGen, MaxDisturbances

\* "foreign" marks the provider of somebody else in the outpost.
ASSUME ConstantsAssumption == "foreign" \notin Instances /\ FirstRevs \subseteq Revs

VARIABLES
    spec,     \* the Tamoss objects
    cond,     \* the IdentityBlueprintSubmitted and identity conditions
    creds,    \* the OAuth2 credentials Secrets: 0 is none
    made,     \* credentials generated so far, per instance
    token,    \* the Authentik API token Secret exists
    first,    \* firstSeen of the platform namespace policy
    bp,       \* Authentik: the managed Blueprints
    queue,    \* Authentik: Blueprints it has to apply
    oauth,    \* Authentik: what the OAuth2 providers were created from
    proxy,    \* Authentik: the proxy providers
    app,      \* Authentik: the proxy applications
    outpost,  \* Authentik: providers of the embedded outpost
    api,      \* Authentik answers, is down, denies, or loses its answers
    pks,      \* provider keys handed out so far, per instance
    pass,     \* the worker
    disturbed,\* user operations and faults so far
    tampered, \* instances changed in Authentik since a pass vouched for them
    skipped   \* instances whose clean-up was given up (history)

authentik == <<bp, queue, oauth, proxy, app, outpost, pks>>
vars == <<spec, cond, creds, made, token, first, authentik, api, pass, disturbed,
          tampered, skipped>>

NoSpec == [exists |-> FALSE, deleting |-> FALSE, gen |-> 0, rev |-> 0]
NoCond == [result |-> "none", gen |-> 0, old |-> FALSE]
NoContent == [rev |-> 0, creds |-> 0]
NoBlueprint == [content |-> NoContent, status |-> "none", applied |-> FALSE]
\* Provider keys are unique: those of an instance are numbered.
NoPk == <<"none", 0>>
Foreign == <<"foreign", 1>>
NoProxy == [pk |-> NoPk, host |-> 0]
NoApp == [exists |-> FALSE, pk |-> NoPk]
Idle == [at |-> "idle", i |-> "none", s |-> NoSpec, content |-> NoContent, status |-> "none",
         pk |-> NoPk, seen |-> {}, out |-> "none", fresh |-> FALSE]

-----------------------------------------------------------------------------
(* What the code computes.                                                 *)

\* The entries of a Blueprint stand for the fields of the spec and the
\* credentials they are rendered from.
blueprintEntries(rev, secret) == [rev |-> rev, creds |-> secret]

RenderBlueprint(rev, secret) == blueprintEntries(rev, secret)

RedirectURIs(rev) == rev \notin NoRedirect

ForwardAuthRequired(rev) == rev \notin NoForward

UIProxyExternalHost(rev) == rev

\* PlatformNamespacePolicy.Allow
Allow(ns) ==
    \/ "*" \in Configured \/ ns \in Configured
    \/ Configured = {} /\ first \in {"none", ns}

CheckPlatformNamespace(rev) == rev \in NoAuth \/ Allow(Namespace[rev])

ResolveAPIToken == token

findOAuthProvider(i) == oauth[i] # NoContent

findProxyProvider(i) == proxy[i]

managedBlueprintRequiresApply_MutantOrphaned(status) == status = "orphaned"

managedBlueprintRequiresApply(status) == status \in {"error", "orphaned"}

managedBlueprintMatches(b, content) == b.content = content

\* A matching Blueprint is applied again unless it was applied already and
\* Authentik does not call it unhealthy.
upToDate(b, content) ==
    /\ managedBlueprintMatches(b, content)
    /\ \/ b.status = "successful"
       \/ b.applied /\ ~managedBlueprintRequiresApply(b.status)

appendProvider_MutantReplace(providers, pk) == {pk}

appendProvider(providers, pk) == providers \cup {pk}

removeProvider(providers, pk) == providers \ {pk}

proxyProviderMatches_MutantExists(p, rev) == p.pk # NoPk

proxyProviderMatches(p, rev) == p.pk # NoPk /\ p.host = UIProxyExternalHost(rev)

\* authentikRetryGracePeriodElapsed: a failure stays one, and a retry becomes
\* one when its condition has grown old.
authentikRetryGracePeriodElapsed(c, gen) ==
    /\ c.gen = gen
    /\ c.result = "Failed" \/ (c.result = "Retrying" /\ c.old)

-----------------------------------------------------------------------------
(* The worker.                                                             *)

In(stage) == pass.at = stage
Go(stage) == pass' = [pass EXCEPT !.at = stage]
Report(out) == pass' = [Idle EXCEPT !.at = "status", !.out = out, !.i = pass.i,
                                    !.s = pass.s, !.fresh = pass.fresh]

\* A call whose answer is lost may still have had its effect.
Effective == api \in {"up", "lossy"}

\* IsRetryableAPIError: time-outs and server errors are, refusals are not.
Failed == Report(IF api = "denied" THEN "fatal" ELSE "retryable")


\* CredsManager.Ensure generates the credentials a Secret lacks.
secretData(secret) == secret = 0

\* The identity gates, the redirect URIs, the credentials and the API token.
Start(i) ==
    LET s == spec[i]
        managed == s.rev \notin NoAuth
        ready == managed /\ CheckPlatformNamespace(s.rev) /\ RedirectURIs(s.rev)
        generate == ready /\ secretData(creds[i])
    IN  /\ In("idle") /\ s.exists /\ ~s.deleting
        /\ first' = IF managed /\ Configured = {} /\ first = "none"
                    THEN Namespace[s.rev] ELSE first
        /\ made' = IF generate THEN [made EXCEPT ![i] = @ + 1] ELSE made
        /\ creds' = IF generate THEN [creds EXCEPT ![i] = made'[i]] ELSE creds
        /\ pass' = [Idle EXCEPT
                !.i = i, !.s = s, !.fresh = TRUE,
                !.content = IF ready THEN RenderBlueprint(s.rev, creds'[i]) ELSE NoContent,
                !.at = IF ready /\ ResolveAPIToken THEN "blueprint" ELSE "status",
                !.out = IF ~managed THEN "unmanaged"
                        ELSE IF ready /\ ResolveAPIToken THEN "none" ELSE "blocked"]
        /\ UNCHANGED <<spec, cond, token, authentik, api, disturbed, tampered, skipped>>

Quiet == UNCHANGED <<spec, cond, creds, made, token, first, api, disturbed,
                     tampered, skipped>>

\* Where a pass goes once the Blueprint is applied.
Applied(status) ==
    IF ForwardAuthRequired(pass.s.rev)
    THEN pass' = [pass EXCEPT !.at = "proxy", !.status = status, !.content = NoContent]
    ELSE Report("applied")

\* ManagedBlueprintClient.Reconcile up to its create or update.
BlueprintWrite ==
    LET i == pass.i
        b == bp[i]
        written == [b EXCEPT !.content = pass.content,
                             !.status = IF @ = "none" THEN "unknown" ELSE @]
        write == Effective /\ ~managedBlueprintMatches(b, pass.content)
    IN  /\ In("blueprint")
        /\ bp' = IF write THEN [bp EXCEPT ![i] = written] ELSE bp
        /\ queue' = IF write /\ ApplyOnSave THEN queue \cup {i} ELSE queue
        /\ IF api # "up" THEN Failed
           ELSE IF upToDate(b, pass.content) THEN Applied(b.status)
           ELSE Go("apply")
        /\ UNCHANGED <<oauth, proxy, app, outpost, pks>> /\ Quiet

\* The apply call of both Reconcile functions: Authentik queues the work and
\* answers with the status the Blueprint has at that moment.
Apply(stage, status) ==
    LET i == pass.i
        found == bp[i].status # "none"
    IN  /\ In(stage)
        /\ queue' = IF Effective /\ found THEN queue \cup {i} ELSE queue
        /\ IF api # "up" THEN Failed
           ELSE IF ~found \/ bp[i].status = "error" THEN Report("fatal")
           ELSE Applied(status)
        /\ UNCHANGED <<bp, oauth, proxy, app, outpost, pks>> /\ Quiet

BlueprintApply == Apply("apply", bp[pass.i].status)

Reapply == Apply("reapply", "reapplied")

\* ProxyOutpostClient.Reconcile up to the proxy provider.  The OAuth2 provider
\* must be there; a missing one is applied again, once, when the Blueprint
\* claims to have succeeded.
upsertProxyProvider ==
    LET i == pass.i
        found == findOAuthProvider(i)
        valid == pass.s.rev \notin BadHost
        write == Effective /\ found /\ valid /\ ~proxyProviderMatches(proxy[i], pass.s.rev)
        create == write /\ proxy[i].pk = NoPk
    IN  /\ In("proxy")
        /\ pks' = IF create THEN [pks EXCEPT ![i] = @ + 1] ELSE pks
        /\ proxy' = IF write
                    THEN [proxy EXCEPT ![i] =
                            [pk   |-> IF create THEN <<i, pks'[i]>> ELSE @.pk,
                             host |-> UIProxyExternalHost(pass.s.rev)]]
                    ELSE proxy
        /\ IF api # "up" THEN Failed
           ELSE IF found /\ ~valid THEN Report("fatal")
           ELSE IF found THEN pass' = [pass EXCEPT !.at = "app", !.pk = proxy'[i].pk]
           ELSE IF pass.status = "successful" THEN Go("reapply")
           ELSE Report("fatal")
        /\ UNCHANGED <<bp, queue, oauth, app, outpost>> /\ Quiet

Providers == {Foreign} \cup ({proxy[j].pk : j \in Instances} \ {NoPk})

\* upsertProxyApplication, and the outpost addProviderToEmbeddedOutpost reads.
\* Authentik refuses a provider that does not exist.
upsertProxyApplication ==
    LET known == pass.pk \in Providers
    IN  /\ In("app")
        /\ app' = IF Effective /\ known
                  THEN [app EXCEPT ![pass.i] = [exists |-> TRUE, pk |-> pass.pk]]
                  ELSE app
        /\ IF api # "up" THEN Failed
           ELSE IF ~known THEN Report("fatal")
           ELSE IF pass.pk \in outpost THEN Report("applied")
           ELSE pass' = [pass EXCEPT !.seen = outpost, !.at = "put"]
        /\ UNCHANGED <<bp, queue, oauth, proxy, outpost, pks>> /\ Quiet

\* The outpost is written back as it was read, with one provider more.
addProviderToEmbeddedOutpost ==
    LET providers == appendProvider(pass.seen, pass.pk)
        known == providers \subseteq Providers
    IN  /\ In("put")
        /\ outpost' = IF Effective /\ known THEN providers ELSE outpost
        /\ IF api # "up" THEN Failed
           ELSE Report(IF known THEN "applied" ELSE "fatal")
        /\ UNCHANGED <<bp, queue, oauth, proxy, app, pks>> /\ Quiet

-----------------------------------------------------------------------------
(* finalizeTamoss.  A failed clean-up of the proxy goes on with the         *)
(* Blueprint, and a failed clean-up of the Blueprint with the release.      *)

\* A missing API token, or another provider than Authentik in the spec that
\* is deleted, leaves everything behind.
Finalize(i) ==
    LET s == spec[i]
        managed == s.rev \notin NoAuth
    IN  /\ In("idle") /\ s.exists /\ s.deleting
        /\ pass' = [Idle EXCEPT !.i = i, !.s = s,
                        !.at = IF managed /\ ResolveAPIToken THEN "fproxy" ELSE "release"]
        /\ skipped' = IF managed /\ ResolveAPIToken THEN skipped ELSE skipped \cup {i}
        /\ UNCHANGED <<spec, cond, creds, made, token, first, authentik, api,
                       disturbed, tampered>>

\* A clean-up call is answered and the clean-up goes on, or the rest of its
\* half is given up.
Clean(accepted, next, instead) ==
    /\ Go(IF api = "up" /\ accepted THEN next ELSE instead)
    /\ skipped' = IF api = "up" /\ accepted THEN skipped ELSE skipped \cup {pass.i}
    /\ UNCHANGED <<spec, cond, creds, made, token, first, api, disturbed, tampered>>

FinalizeFind_MutantReturn ==
    LET pk == findProxyProvider(pass.i).pk
    IN  /\ In("fproxy")
        /\ IF api = "up"
           THEN pass' = [pass EXCEPT !.pk = pk, !.seen = outpost,
                            !.at = IF pk \in outpost THEN "fput" ELSE "fblueprint"]
           ELSE Go("fblueprint")
        /\ skipped' = IF api = "up" THEN skipped ELSE skipped \cup {pass.i}
        /\ UNCHANGED authentik
        /\ UNCHANGED <<spec, cond, creds, made, token, first, api, disturbed, tampered>>

\* findProxyProvider and the read of removeProviderFromEmbeddedOutpost.
FinalizeFind ==
    LET pk == findProxyProvider(pass.i).pk
    IN  /\ In("fproxy")
        /\ IF api = "up"
           THEN pass' = [pass EXCEPT !.pk = pk, !.seen = outpost,
                            !.at = IF pk \in outpost THEN "fput" ELSE "fapp"]
           ELSE Go("fblueprint")
        /\ skipped' = IF api = "up" THEN skipped ELSE skipped \cup {pass.i}
        /\ UNCHANGED authentik
        /\ UNCHANGED <<spec, cond, creds, made, token, first, api, disturbed, tampered>>

removeProviderFromEmbeddedOutpost ==
    LET providers == removeProvider(pass.seen, pass.pk)
        known == providers \subseteq Providers
    IN  /\ In("fput")
        /\ outpost' = IF Effective /\ known THEN providers ELSE outpost
        /\ UNCHANGED <<bp, queue, oauth, proxy, app, pks>>
        /\ Clean(known, "fapp", "fblueprint")

deleteProxyApplication ==
    /\ In("fapp")
    /\ app' = IF Effective THEN [app EXCEPT ![pass.i] = NoApp] ELSE app
    /\ UNCHANGED <<bp, queue, oauth, proxy, outpost, pks>>
    /\ Clean(TRUE, IF pass.pk = NoPk THEN "fblueprint" ELSE "fprovider", "fblueprint")

\* Authentik drops a deleted provider from the outpost and from applications.
Dropped(i) ==
    /\ proxy' = [proxy EXCEPT ![i] = NoProxy]
    /\ outpost' = outpost \ {proxy[i].pk}
    /\ app' = [app EXCEPT ![i].pk = NoPk]

deleteProxyProvider ==
    /\ In("fprovider")
    /\ IF Effective /\ proxy[pass.i].pk = pass.pk THEN Dropped(pass.i)
       ELSE UNCHANGED <<proxy, outpost, app>>
    /\ UNCHANGED <<bp, queue, oauth, pks>>
    /\ Clean(proxy[pass.i].pk = pass.pk, "fblueprint", "fblueprint")

DeleteByName ==
    /\ In("fblueprint")
    /\ bp' = IF Effective THEN [bp EXCEPT ![pass.i] = NoBlueprint] ELSE bp
    /\ queue' = IF Effective THEN queue \ {pass.i} ELSE queue
    /\ UNCHANGED <<oauth, proxy, app, outpost, pks>>
    /\ Clean(TRUE, "release", "release")

\* The finalizer is removed; the credentials Secret is garbage collected.
Release ==
    LET i == pass.i
    IN  /\ In("release")
        /\ spec' = [spec EXCEPT ![i].exists = FALSE, ![i].deleting = FALSE]
        /\ cond' = [cond EXCEPT ![i] = NoCond]
        /\ creds' = [creds EXCEPT ![i] = 0]
        /\ pass' = Idle
        /\ UNCHANGED <<made, token, first, authentik, api, disturbed, tampered, skipped>>

-----------------------------------------------------------------------------
(* The end of a pass.                                                      *)

\* identityResult: the discovery document is served when the application of
\* the instance is there.
Probe(i) == api = "up" /\ oauth[i] # NoContent

\* updateAuthentikApplyFailureStatus, updateIdentityBlockedStatus and the
\* identity conditions of a pass that reached its end.
result(i, out, c, gen) ==
    CASE out = "fatal" -> "Failed"
      [] out = "retryable" ->
            IF authentikRetryGracePeriodElapsed(c, gen) THEN "Failed" ELSE "Retrying"
      [] out = "blocked" -> "Blocked"
      [] out = "unmanaged" -> "Unmanaged"
      [] out = "applied" -> IF Probe(i) THEN "Ready" ELSE "Unreachable"

\* The status patch carries the resource version: it is refused when the
\* object changed since the pass read it.  A condition keeps its transition
\* time while its status stays the same, whatever the generation.
Status ==
    LET i == pass.i
        c == cond[i]
        r == result(i, pass.out, c, pass.s.gen)
        accepted == spec[i] = pass.s
    IN  /\ In("status")
        /\ cond' = IF accepted
                   THEN [cond EXCEPT ![i] =
                            [result |-> r, gen |-> pass.s.gen,
                             old |-> c.old /\ c.result = "Retrying" /\ r = "Retrying"]]
                   ELSE cond
        /\ tampered' = IF accepted /\ r = "Ready" /\ pass.fresh
                       THEN tampered \ {i} ELSE tampered
        /\ pass' = Idle
        /\ UNCHANGED <<spec, creds, made, token, first, authentik, api,
                       disturbed, skipped>>

-----------------------------------------------------------------------------
(* Authentik, its administrators, the users and the faults.                *)

\* Authentik applies a queued Blueprint as it finds it; it may not succeed.
RunBlueprint(i) ==
    /\ i \in queue /\ queue' = queue \ {i}
    /\ oauth' = [oauth EXCEPT ![i] = bp[i].content]
    /\ bp' = [bp EXCEPT ![i].status = "successful", ![i].applied = TRUE]
    /\ UNCHANGED <<spec, cond, creds, made, token, first, proxy, app, outpost, api,
                   pks, pass, disturbed, tampered, skipped>>

Disturb ==
    /\ disturbed < MaxDisturbances
    /\ disturbed' = disturbed + 1

BlueprintError(i) ==
    /\ Disturb
    /\ i \in queue /\ queue' = queue \ {i}
    /\ bp' = [bp EXCEPT ![i].status = "error", ![i].applied = TRUE]
    /\ UNCHANGED <<spec, cond, creds, made, token, first, oauth, proxy, app, outpost,
                   api, pks, pass, tampered, skipped>>

\* The pass under way no longer vouches for an instance that is tampered with.
Tampered(i) ==
    /\ Disturb
    /\ tampered' = tampered \cup {i}
    /\ pass' = IF pass.i = i THEN [pass EXCEPT !.fresh = FALSE] ELSE pass
    /\ UNCHANGED <<spec, cond, made, token, first, api, pks, skipped>>

TamperOAuth(i) ==
    /\ oauth[i] # NoContent
    /\ oauth' = [oauth EXCEPT ![i] = NoContent]
    /\ UNCHANGED <<creds, bp, queue, proxy, app, outpost>> /\ Tampered(i)

TamperProxy(i) ==
    /\ proxy[i].pk # NoPk
    /\ Dropped(i)
    /\ UNCHANGED <<creds, bp, queue, oauth>> /\ Tampered(i)

TamperBlueprint(i) ==
    /\ bp[i] # NoBlueprint
    /\ bp' = [bp EXCEPT ![i] = NoBlueprint]
    /\ queue' = queue \ {i}
    /\ UNCHANGED <<creds, oauth, proxy, app, outpost>> /\ Tampered(i)

LoseCreds(i) ==
    /\ creds[i] # 0
    /\ creds' = [creds EXCEPT ![i] = 0]
    /\ UNCHANGED <<bp, queue, oauth, proxy, app, outpost>> /\ Tampered(i)

\* Somebody puts a provider of their own into the outpost, or takes it out.
EditOutpost ==
    /\ Disturb
    /\ outpost' = IF Foreign \in outpost THEN outpost \ {Foreign}
                  ELSE outpost \cup {Foreign}
    /\ UNCHANGED <<spec, cond, creds, made, token, first, bp, queue, oauth, proxy, app,
                   pks, api, pass, tampered, skipped>>

User == UNCHANGED <<cond, creds, made, first, authentik, api, pass, tampered>>

\* A name is used again only after the old instance is gone; the clean-up
\* history starts over.
Create(i) ==
    /\ Disturb /\ ~spec[i].exists /\ spec[i].gen < MaxGen
    /\ \E r \in FirstRevs : spec' = [spec EXCEPT ![i] =
            [exists |-> TRUE, deleting |-> FALSE, gen |-> @.gen + 1, rev |-> r]]
    /\ skipped' = skipped \ {i}
    /\ UNCHANGED token /\ User

EditSpec(i) ==
    /\ Disturb /\ spec[i].exists /\ ~spec[i].deleting /\ spec[i].gen < MaxGen
    /\ \E r \in Revs \ {spec[i].rev} :
            spec' = [spec EXCEPT ![i].gen = @ + 1, ![i].rev = r]
    /\ UNCHANGED <<token, skipped>> /\ User

Delete(i) ==
    /\ Disturb /\ spec[i].exists /\ ~spec[i].deleting
    /\ spec' = [spec EXCEPT ![i].deleting = TRUE]
    /\ UNCHANGED <<token, skipped>> /\ User

LoseToken ==
    /\ Disturb /\ token /\ token' = FALSE
    /\ UNCHANGED <<spec, skipped>> /\ User

RestoreToken ==
    /\ ~token /\ token' = TRUE
    /\ UNCHANGED <<spec, disturbed, skipped>> /\ User

Trouble ==
    /\ Disturb /\ api = "up"
    /\ api' \in {"down", "denied", "lossy"}
    /\ UNCHANGED <<spec, cond, creds, made, token, first, authentik, pass, tampered,
                   skipped>>

Recover ==
    /\ api # "up" /\ api' = "up"
    /\ UNCHANGED <<spec, cond, creds, made, token, first, authentik, pass, disturbed,
                   tampered, skipped>>

\* The operator restarts: its pass and the first seen namespace are forgotten.
Crash ==
    /\ Disturb /\ pass # Idle
    /\ pass' = Idle /\ first' = "none"
    /\ UNCHANGED <<spec, cond, creds, made, token, authentik, api, tampered, skipped>>

GraceElapses(i) ==
    /\ cond[i].result = "Retrying" /\ ~cond[i].old
    /\ cond' = [cond EXCEPT ![i].old = TRUE]
    /\ UNCHANGED <<spec, creds, made, token, first, authentik, api, pass, disturbed,
                   tampered, skipped>>

-----------------------------------------------------------------------------
Init ==
    /\ \E rev \in [Instances -> FirstRevs] :
        spec = [i \in Instances |->
                    [exists |-> TRUE, deleting |-> FALSE, gen |-> 1, rev |-> rev[i]]]
    /\ cond = [i \in Instances |-> NoCond]
    /\ creds = [i \in Instances |-> 0] /\ made = [i \in Instances |-> 0]
    /\ token = TRUE /\ first = "none"
    /\ bp = [i \in Instances |-> NoBlueprint] /\ queue = {}
    /\ oauth = [i \in Instances |-> NoContent]
    /\ proxy = [i \in Instances |-> NoProxy]
    /\ app = [i \in Instances |-> NoApp]
    /\ outpost = {Foreign} /\ pks = [i \in Instances |-> 0]
    /\ api = "up" /\ pass = Idle /\ disturbed = 0
    /\ tampered = {} /\ skipped = {}

Stages ==
    \/ BlueprintWrite \/ BlueprintApply \/ Reapply
    \/ upsertProxyProvider \/ upsertProxyApplication
    \/ addProviderToEmbeddedOutpost
    \/ FinalizeFind \/ removeProviderFromEmbeddedOutpost
    \/ deleteProxyApplication \/ deleteProxyProvider \/ DeleteByName
    \/ Release \/ Status

Next ==
    \/ Stages
    \/ \E i \in Instances :
        \/ Start(i) \/ Finalize(i) \/ RunBlueprint(i) \/ BlueprintError(i)
        \/ TamperOAuth(i) \/ TamperProxy(i) \/ TamperBlueprint(i) \/ LoseCreds(i)
        \/ Create(i) \/ EditSpec(i) \/ Delete(i) \/ GraceElapses(i)
    \/ EditOutpost \/ LoseToken \/ RestoreToken \/ Trouble \/ Recover \/ Crash

Spec == Init /\ [][Next]_vars

\* The worker takes its steps and gets to every instance: passes are requeued
\* after the probe interval.  Authentik empties its queue and comes back, and
\* the API token is provided again.
FairSpec ==
    /\ Spec
    /\ WF_vars(Stages)
    /\ \A i \in Instances :
        /\ SF_vars(Start(i)) /\ SF_vars(Finalize(i)) /\ WF_vars(RunBlueprint(i))
    /\ WF_vars(Recover) /\ WF_vars(RestoreToken)

-----------------------------------------------------------------------------
(* Properties.                                                             *)

Contents(i) == [rev : Revs \cup {0}, creds : 0 .. made[i]]

\* The variables have their types; in particular a Blueprint that was never
\* rendered has no status, and an application serves a provider only once it is
\* there itself (upsertProxyApplication).
TypeOK ==
    /\ \A i \in Instances :
        /\ spec[i].gen \in 0 .. MaxGen /\ spec[i].rev \in Revs \cup {0}
        /\ spec[i].deleting => spec[i].exists
        /\ creds[i] \in 0 .. made[i]
        /\ bp[i].content \in Contents(i) /\ oauth[i] \in Contents(i)
        /\ bp[i].status \in {"none", "unknown", "successful", "error"}
        /\ bp[i].content = NoContent <=> bp[i].status = "none"
        /\ proxy[i].pk \in {NoPk} \cup {<<i, n>> : n \in 1 .. pks[i]}
        /\ app[i].pk # NoPk => app[i].exists
    /\ queue \subseteq {i \in Instances : bp[i] # NoBlueprint}
    /\ outpost \subseteq Providers
    /\ disturbed \in 0 .. MaxDisturbances

Ready(i) ==
    /\ spec[i].exists /\ ~spec[i].deleting
    /\ cond[i].result = "Ready" /\ cond[i].gen = spec[i].gen
    /\ i \notin tampered

\* An instance whose status says that its identity is ready is protected: the
\* OAuth2 provider exists, and the outpost serves a proxy provider for the
\* external host of the current spec, under the instance's application, unless
\* somebody changed that since.
ReadyIsProtected ==
    \A i \in Instances :
        Ready(i) =>
            /\ oauth[i] # NoContent
            /\ ForwardAuthRequired(spec[i].rev) =>
                /\ proxy[i].pk # NoPk /\ proxy[i].host = spec[i].rev
                /\ app[i] = [exists |-> TRUE, pk |-> proxy[i].pk]
                /\ proxy[i].pk \in outpost

\* "Authentik managed Blueprint has been applied": Authentik has applied the
\* Blueprint rendered from the current spec and credentials, is about to, or
\* has marked it as failed.
ReadyIsApplied ==
    \A i \in Instances :
        Ready(i) =>
            /\ bp[i].content = RenderBlueprint(spec[i].rev, creds[i])
            /\ oauth[i] = bp[i].content \/ i \in queue \/ bp[i].status = "error"

\* The condition the operator reports is true on both accounts.
ReadyIsTrue == ReadyIsProtected /\ ReadyIsApplied

\* An instance that is gone has left nothing of its own in Authentik's managed
\* Blueprints, providers, applications and outpost, unless its clean-up had to
\* be skipped.
NothingLeftBehind ==
    \A i \in Instances \ skipped :
        ~spec[i].exists =>
            bp[i] = NoBlueprint /\ proxy[i] = NoProxy /\ app[i] = NoApp

\* The worker's updates of the shared outpost add or remove the provider of
\* the instance at hand and keep every other one it has read.
OthersKept ==
    [][ pass.at \in {"put", "fput"} /\ outpost' # outpost /\ pass' # pass =>
            \A pk \in pass.seen \ {pass.pk} : pk \in outpost' ]_vars

\* Two generations of credentials never alternate: the OAuth2 credentials of
\* an instance are replaced only after somebody removed them.
CredsKept ==
    [][ \A i \in Instances :
            creds[i] # 0 /\ creds'[i] # creds[i] => creds'[i] = 0 ]_vars

\* Every instance ends up ready, blocked on its own configuration or gone.
\* A missing OAuth2 provider is only repaired for instances that need forward
\* authentication.
Settled(i) ==
    \/ ~spec[i].exists
    \/ spec[i].rev \in NoAuth \cup NoRedirect \cup BadHost
    \/ ~Allow(Namespace[spec[i].rev])
    \/ Ready(i)
    \/ ~ForwardAuthRequired(spec[i].rev) /\ oauth[i] = NoContent

EventuallySettled == \A i \in Instances : []<>Settled(i)

=============================================================================
