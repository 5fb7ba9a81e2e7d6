---------------------------- MODULE ReleaseSwitch ----------------------------
(***************************************************************************)
(* Switching the Portal of the production host from one release to another *)
(* (release.sh, rollback.sh and recover-portal-switch.sh over              *)
(* release-state.py, all in deploy/mvp/bin), and installing a backend by   *)
(* itself (install-supabase-app.sh, run by hand or by start-supabase.sh).  *)
(* The scripts run one at a time under the deployment lock, and any of     *)
(* them may end anywhere: by an error, or with the host.  What a document  *)
(* goes through is a list of writes, each the atomic replacement of one    *)
(* file.                                                                   *)
(*                                                                         *)
(* The state document of a subsystem is its line of releases, the last one *)
(* being current, and what was previous to the first.                      *)
(***************************************************************************)
EXTENDS Naturals, Sequences, SequencesExt

CONSTANTS Releases, Absent,
          Wire,              \* the wire contract of each release
          MaxGenerations,    \* bound
          MaxLosses          \* bound: times a state document is lost

(* No file is taken for a release, a document, a marker or an intent.       *)
AbsentAssumption ==
    LET documents == [first : Releases \cup {Absent}, line : Seq(Releases \cup {Absent})]
    IN  /\ Absent \notin Releases
        /\ Absent \notin documents
        /\ Absent \notin [origin : documents, established : BOOLEAN]
        /\ Absent \notin [base : Nat, from : Releases \cup {Absent}, to : Releases \cup {Absent}]

ASSUME AbsentAssumption

VARIABLES disk,        \* the state directory
          script,      \* the script that holds the lock
          container,   \* the Portal's container
          rows,        \* private.mvp_backend_releases, by release
          legacy,      \* the release values of the older layout
          losses,
          apart        \* history: an install of its own activated the backend
                       \* under a Portal of another wire, and no script that
                       \* compares wires has passed its comparison since

switchVars == <<disk, script, container, rows, legacy, losses, apart>>

NoScript == [name |-> "none"]
NoContainer == [release |-> Absent, status |-> "down"]

MarkerOf == [portal |-> "portalMarker", backend |-> "backendMarker"]

Document(first, line) == [first |-> first, line |-> line]
Generation(d) == Len(d.line)
Current(d) == Last(d.line)
Previous(d) == IF Len(d.line) = 1 THEN d.first ELSE d.line[Len(d.line) - 1]

(* _lineage_origin: what a marker names by its digest. *)
Origin(d) == Document(d.first, <<d.line[1]>>)
MarkerFor(d, established) == [origin |-> Origin(d), established |-> established]

Running == IF container.status = "up" THEN container.release ELSE Absent

(* Docker restarts a container that dies, unless it was stopped.            *)
Upable == container.release # Absent /\ container.status # "stopped"

SwitchInit ==
    /\ disk = [portal |-> Absent, portalMarker |-> Absent, backend |-> Absent,
               backendMarker |-> Absent, intent |-> Absent]
    /\ script = NoScript /\ losses = 0 /\ apart = FALSE
    /\ \E r \in Releases, before \in Releases \cup {Absent}, old \in BOOLEAN :
           /\ before # r
           /\ old \/ before = Absent
           /\ legacy = IF old THEN [portal |-> Document(before, <<r>>),
                                    backend |-> Document(Absent, <<r>>)]
                              ELSE [portal |-> Absent, backend |-> Absent]
           /\ rows = [x \in Releases |-> IF old /\ x = r THEN "active" ELSE "none"]
           /\ container = IF old THEN [release |-> r, status |-> "up"] ELSE NoContainer
-----------------------------------------------------------------------------
(* What the commands of release-state.py check, and what they write.        *)
PutFile(file, content) == <<[file |-> file, content |-> content]>>

Matches(k, d) == disk[MarkerOf[k]] # Absent => disk[MarkerOf[k]].origin = Origin(d)
Established(k) == disk[MarkerOf[k]] # Absent /\ disk[MarkerOf[k]].established

(* _write_state_with_marker: the first marker is a tombstone of the values  *)
(* of the older layout and precedes the document.                           *)
Establish(k, d) ==
    (IF disk[MarkerOf[k]] = Absent THEN PutFile(MarkerOf[k], MarkerFor(d, FALSE)) ELSE <<>>)
        \o PutFile(k, d) \o PutFile(MarkerOf[k], MarkerFor(d, TRUE))

WithMarker(k, d) == IF disk[MarkerOf[k]] = Absent THEN Establish(k, d) ELSE PutFile(k, d)

(* load_portal_state, load_backend_state, and _optional_load. *)
Loadable(k) ==
    /\ disk[k] # Absent
    /\ disk[MarkerOf[k]] # Absent => Established(k) /\ Matches(k, disk[k])

MayLoad(k) == Loadable(k) \/ (disk[k] = Absent /\ disk[MarkerOf[k]] = Absent)

(* migrate_legacy_portal and migrate_legacy_backend.                        *)
(* Mutant: an established marker does not stop a migration. *)
MayMigrateAgain(k) ==
    IF disk[k] # Absent THEN Matches(k, disk[k])
    ELSE IF legacy[k] = Absent THEN disk[MarkerOf[k]] = Absent
    ELSE Matches(k, legacy[k])

MayMigrate(k) ==
    IF disk[k] # Absent THEN Matches(k, disk[k])
    ELSE IF legacy[k] = Absent THEN disk[MarkerOf[k]] = Absent
    ELSE Matches(k, legacy[k]) /\ ~Established(k)

Migration(k) ==
    IF disk[k] # Absent
    THEN IF Established(k) THEN <<>> ELSE PutFile(MarkerOf[k], MarkerFor(disk[k], TRUE))
    ELSE IF legacy[k] = Absent THEN <<>> ELSE Establish(k, legacy[k])

(* commit_backend. *)
BackendCommit(r) ==
    IF disk.backend = Absent THEN WithMarker("backend", Document(Absent, <<r>>))
    ELSE IF Current(disk.backend) = r THEN <<>>
    ELSE PutFile("backend", [disk.backend EXCEPT !.line = Append(@, r)])

(* _committed_portal_intent_matches. *)
Committed(i) ==
    /\ i.base > 0 /\ Loadable("portal")
    /\ Generation(disk.portal) = i.base + 1
    /\ Current(disk.portal) = i.to /\ Previous(disk.portal) = i.from

Unmoved(i) ==
    /\ Loadable("portal")
    /\ Generation(disk.portal) = i.base /\ Current(disk.portal) = i.from

(* complete_portal_intent, of the first release and of a later one.         *)
FirstOf(i) == Document(Absent, <<i.to>>)

MayComplete(i) ==
    IF i.base > 0 THEN Committed(i) \/ Unmoved(i)
    ELSE IF disk.portalMarker = Absent THEN disk.portal = Absent
    ELSE /\ Matches("portal", FirstOf(i))
         /\ \/ disk.portal = FirstOf(i)
            \/ disk.portal = Absent /\ ~Established("portal")

Commitment(i) ==
    IF i.base > 0
    THEN IF Committed(i) THEN <<>>
         ELSE WithMarker("portal", [disk.portal EXCEPT !.line = Append(@, i.to)])
    ELSE IF Established("portal") THEN <<>>
    ELSE IF disk.portal = Absent THEN Establish("portal", FirstOf(i))
    ELSE PutFile("portalMarker", MarkerFor(FirstOf(i), TRUE))

Completion(i) == Commitment(i) \o PutFile("intent", Absent)

(* abort_portal_intent. *)
MayAbort(i) ==
    IF i.base > 0 THEN Unmoved(i)
    ELSE IF disk.portalMarker = Absent THEN disk.portal = Absent
    ELSE /\ ~Established("portal") /\ Matches("portal", FirstOf(i))
         /\ disk.portal \in {Absent, FirstOf(i)}

(* Mutant: the marker is removed before the document. *)
AbortionMarkerFirst(i) ==
    (IF i.base = 0 /\ disk.portalMarker # Absent
     THEN PutFile("portalMarker", Absent) \o PutFile("portal", Absent)
     ELSE <<>>) \o PutFile("intent", Absent)

Abortion(i) ==
    (IF i.base = 0 /\ disk.portalMarker # Absent
     THEN (IF disk.portal = Absent THEN <<>> ELSE PutFile("portal", Absent))
              \o PutFile("portalMarker", Absent)
     ELSE <<>>) \o PutFile("intent", Absent)
-----------------------------------------------------------------------------
(* The scripts.  A condition of theirs that does not hold ends them.        *)
At(step) == script.name # "none" /\ script.step = step /\ script.writes = <<>>

Then(step, writes) == script' = [script EXCEPT !.step = step, !.writes = writes]

Enter(name, r, step, writes) ==
    /\ script = NoScript
    /\ script' = [name |-> name, release |-> r, step |-> step, writes |-> writes]

StartRelease(r) ==
    /\ MayMigrate("portal")
    /\ disk.portal # Absent => Generation(disk.portal) < MaxGenerations
    /\ Enter("release", r, "check", Migration("portal"))
    /\ UNCHANGED <<disk, container, rows, legacy, losses, apart>>

StartRollback ==
    /\ MayMigrate("portal") /\ MayMigrate("backend")
    /\ disk.portal # Absent => Generation(disk.portal) < MaxGenerations
    /\ Enter("rollback", Absent, "check", Migration("portal") \o Migration("backend"))
    /\ UNCHANGED <<disk, container, rows, legacy, losses, apart>>

(* install-supabase-app.sh as a command of its own: no wire is compared.    *)
StartInstall(r) ==
    /\ MayMigrate("backend") /\ Enter("install", r, "install", Migration("backend"))
    /\ UNCHANGED <<disk, container, rows, legacy, losses, apart>>

WriteFile ==
    /\ script.name # "none" /\ script.writes # <<>>
    /\ disk' = [disk EXCEPT ![Head(script.writes).file] = Head(script.writes).content]
    /\ script' = [script EXCEPT !.writes = Tail(@)]
    /\ UNCHANGED <<container, rows, legacy, losses, apart>>

(* assert_portal_intent_clear. *)
CheckIntent ==
    /\ At("check")
    /\ disk.intent # Absent => Committed(disk.intent)
    /\ Then("verify", IF disk.intent = Absent THEN <<>> ELSE PutFile("intent", Absent))
    /\ UNCHANGED <<disk, container, rows, legacy, losses, apart>>

(* verify-supabase-app.sh, of the release backend-state.json names. *)
BackendVerified ==
    Loadable("backend") /\ rows[Current(disk.backend)] = "active"

(* release.sh: what is running is what the document says, and it speaks the *)
(* wire of the candidate's backend.                                         *)
(* Mutant: the wire is not compared. *)
GatesOpenAnyWire ==
    /\ MayLoad("portal")
    /\ Running = IF disk.portal = Absent THEN Absent ELSE Current(disk.portal)

GatesOpen ==
    /\ MayLoad("portal")
    /\ Running = IF disk.portal = Absent THEN Absent ELSE Current(disk.portal)
    /\ disk.portal # Absent => Wire[Current(disk.portal)] = Wire[script.release]

VerifyRelease ==
    /\ At("verify") /\ script.name = "release" /\ GatesOpen
    /\ MayMigrate("backend") /\ Then("install", Migration("backend"))
    /\ UNCHANGED <<disk, container, rows, legacy, losses, apart>>

VerifyRollback ==
    /\ At("verify") /\ script.name = "rollback"
    /\ Loadable("portal") /\ BackendVerified
    /\ LET previous == Previous(disk.portal) IN
           /\ previous # Absent
           /\ Running = Current(disk.portal)
           /\ \A r \in {Running, previous} : Wire[r] = Wire[Current(disk.backend)]
           /\ script' = [script EXCEPT !.step = "begin", !.release = previous]
    /\ apart' = FALSE
    /\ UNCHANGED <<disk, container, rows, legacy, losses>>

(* install-supabase-app.sh, of release.sh or by itself: the release is      *)
(* registered, its migrations run, it becomes the active one, and           *)
(* backend-state.json follows.                                              *)
Register ==
    /\ At("install") /\ rows[script.release] = "none"
    /\ rows' = [rows EXCEPT ![script.release] = "installing"]
    /\ Then("migrations", <<>>)
    /\ UNCHANGED <<disk, container, legacy, losses, apart>>

Registered ==
    /\ At("install") /\ rows[script.release] = "active" /\ Then("record", <<>>)
    /\ apart' = (script.name = "install" /\ apart)
    /\ UNCHANGED <<disk, container, rows, legacy, losses>>

InstallFails ==
    /\ At("migrations")
    /\ rows' = [rows EXCEPT ![script.release] = "failed"] /\ script' = NoScript
    /\ UNCHANGED <<disk, container, legacy, losses, apart>>

Activate ==
    /\ At("migrations")
    /\ rows' = [r \in Releases |-> IF r = script.release THEN "active"
                                   ELSE IF rows[r] = "active" THEN "superseded" ELSE rows[r]]
    /\ apart' = (script.name = "install" /\ Upable
                    /\ Wire[container.release] # Wire[script.release])
    /\ Then("record", <<>>)
    /\ UNCHANGED <<disk, container, legacy, losses>>

Record ==
    /\ At("record") /\ MayLoad("backend")
    /\ Then(IF script.name = "install" THEN "installed" ELSE "begin",
            BackendCommit(script.release))
    /\ UNCHANGED <<disk, container, rows, legacy, losses, apart>>

(* begin_portal_intent. *)
BeginIntent ==
    LET d == disk.portal
        intent == [base |-> IF d = Absent THEN 0 ELSE Generation(d),
                   from |-> IF d = Absent THEN Absent ELSE Current(d),
                   to |-> script.release]
    IN  /\ At("begin") /\ disk.intent = Absent /\ MayLoad("portal")
        /\ intent.from # intent.to
        /\ Then("up", PutFile("intent", intent))
        /\ UNCHANGED <<disk, container, rows, legacy, losses, apart>>

(* docker compose up: the container is replaced and comes up, or it stops   *)
(* anywhere on the way.                                                     *)
Replaced(r) ==
    {container, NoContainer} \cup {[release |-> r, status |-> s] : s \in {"down", "up"}}

ComposeUp ==
    /\ At("up")
    /\ container' \in Replaced(script.release)
    /\ \/ container' = [release |-> script.release, status |-> "up"] /\ Then("probe", <<>>)
       \/ Then("restore", <<>>)
    /\ UNCHANGED <<disk, rows, legacy, losses, apart>>

Probe ==
    /\ At("probe")
    /\ \/ Running = script.release /\ Then("complete", <<>>)
       \/ Then("restore", <<>>)
    /\ UNCHANGED <<disk, container, rows, legacy, losses, apart>>

(* What docker inspect says; a recovery goes by what it saw as it began.    *)
Observed(side) == script.name = "recover" \/ Running = side

Complete ==
    /\ At("complete")
    /\ disk.intent # Absent /\ Observed(disk.intent.to) /\ MayComplete(disk.intent)
    /\ Then("done", Completion(disk.intent))
    /\ UNCHANGED <<disk, container, rows, legacy, losses, apart>>

(* restore_current and restore_displaced; the first release is stopped.     *)
(* (restore_current compares the wires again, which nothing has changed.)   *)
Restore ==
    /\ At("restore")
    /\ script.name = "release" /\ disk.portal # Absent
           => Wire[Current(disk.portal)] = Wire[Current(disk.backend)]
    /\ IF disk.portal = Absent
       THEN container' = [container EXCEPT !.status = "stopped"]
       ELSE container' \in Replaced(Current(disk.portal))
    /\ Then("abort", <<>>)
    /\ UNCHANGED <<disk, rows, legacy, losses, apart>>

Abort ==
    /\ At("abort")
    /\ disk.intent # Absent /\ Observed(disk.intent.from) /\ MayAbort(disk.intent)
    /\ Then("done", Abortion(disk.intent))
    /\ UNCHANGED <<disk, container, rows, legacy, losses, apart>>

(* recover-portal-switch.sh.  Either side is probed before it is settled,   *)
(* but a first release that does not run is stopped and undone.             *)
Recover ==
    /\ disk.intent # Absent
    /\ Running \in {disk.intent.to, disk.intent.from}
    /\ IF Running = Absent
       THEN /\ Enter("recover", Running, "abort", <<>>)
            /\ container' = [container EXCEPT !.status = "stopped"]
       ELSE /\ MayMigrate("backend")
            /\ Enter("recover", Running, "live", Migration("backend"))
            /\ UNCHANGED container
    /\ UNCHANGED <<disk, rows, legacy, losses, apart>>

VerifyLive ==
    /\ At("live") /\ BackendVerified /\ Running = script.release
    /\ Then(IF Running = disk.intent.to THEN "complete" ELSE "abort", <<>>)
    /\ UNCHANGED <<disk, container, rows, legacy, losses, apart>>

ScriptEnds ==
    /\ script # NoScript /\ script' = NoScript
    /\ UNCHANGED <<disk, container, rows, legacy, losses, apart>>

ContainerTurns ==
    /\ Upable
    /\ container' = [container EXCEPT !.status = IF @ = "up" THEN "down" ELSE "up"]
    /\ UNCHANGED <<disk, script, rows, legacy, losses, apart>>

LoseState ==
    /\ losses < MaxLosses /\ losses' = losses + 1
    /\ script = NoScript /\ disk.portal # Absent
    /\ disk' = [disk EXCEPT !.portal = Absent]
    /\ UNCHANGED <<script, container, rows, legacy, apart>>
-----------------------------------------------------------------------------
SwitchNext ==
    \/ \E r \in Releases : StartRelease(r) \/ StartInstall(r)
    \/ StartRollback \/ WriteFile \/ CheckIntent \/ VerifyRelease \/ VerifyRollback
    \/ Register \/ Registered \/ InstallFails \/ Activate \/ Record
    \/ BeginIntent \/ ComposeUp \/ Probe \/ Complete \/ Restore \/ Abort
    \/ Recover \/ VerifyLive
    \/ ScriptEnds \/ ContainerTurns \/ LoseState

SwitchSpec == SwitchInit /\ [][SwitchNext]_switchVars
-----------------------------------------------------------------------------
Authoritative == IF disk.portal # Absent THEN disk.portal ELSE legacy.portal

(* "An interruption in the switching window keeps the intent ... and the    *)
(* old version in the file is never taken for the one that runs"            *)
(* (docs/MVP_DEPLOY.md:263-264): whatever ended when, the Portal that runs  *)
(* is the one the document names, or one of the two an intent names.        *)
SwitchJournaled ==
    Running # Absent /\ losses = 0
        => IF disk.intent # Absent THEN Running \in {disk.intent.from, disk.intent.to}
           ELSE Authoritative # Absent /\ Running = Current(Authoritative)

(* "Matching the target it commits the generation, matching the source it   *)
(* revokes the intent" (docs/MVP_DEPLOY.md:619-620): wherever a script      *)
(* ended, recovery is not refused on either side, but for undoing a first   *)
(* release whose document was already established.                          *)
Recoverable ==
    script = NoScript /\ disk.intent # Absent /\ losses = 0
        => /\ Running = disk.intent.to => MayComplete(disk.intent)
           /\ Running = disk.intent.from
                  => \/ MayAbort(disk.intent)
                     \/ disk.intent.base = 0 /\ Established("portal")

(* "The durable marker keeps the old fields from coming back to life"       *)
(* (docs/MVP_DEPLOY.md:615): once established, the line of releases only    *)
(* grows by one, and a document that is lost does not come back as a line   *)
(* the older layout still holds.                                            *)
LineageKept ==
    [][Established("portal") =>
          IF disk.portal = Absent THEN disk'.portal = Absent
          ELSE \/ losses' > losses
               \/ disk'.portal = disk.portal
               \/ disk'.portal.first = disk.portal.first
                  /\ Front(disk'.portal.line) = disk.portal.line]_switchVars

(* A Portal that runs speaks the wire contract of the backend that is       *)
(* active, in the middle of every switch as well (release.sh:183-187,       *)
(* rollback.sh:142-145), whatever was installed, released, rolled back,     *)
(* lost or left half done before; but not from an install of its own of a   *)
(* backend of another wire, which compares nothing                          *)
(* (install-supabase-app.sh:343-357, start-supabase.sh:44), until a release *)
(* or a rollback has compared the wires again.                              *)
CompatibleServed ==
    Running # Absent /\ ~apart
        => \A r \in Releases : rows[r] = "active" => Wire[r] = Wire[Running]
=============================================================================
