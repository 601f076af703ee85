----------------------------- MODULE Deployment -----------------------------
(* The host on which the vault runs, and the scripts of deploy/ that change  *)
(* it: install.sh with install-environment.sh, install-config.py,            *)
(* install-storage.py and install-runtime.sh, the migrations its `database'  *)
(* command runs (db/migrations.ts), and backup.sh.  A script may be killed,  *)
(* fail or be cancelled at any step (Abort), and be run again.               *)
(*                                                                           *)
(* Revisions of the program are numbered; revision r has the migrations      *)
(* 1..r.  The operator runs one script at a time.  A legacy database without *)
(* a ledger, the qBittorrent override and the wording are left out.          *)
EXTENDS Naturals, Sequences

CONSTANTS
    Hosts,      \* the hosts a behaviour may begin with (Fresh, Legacy)
    Present,    \* the tools a fresh host has
    Offered,    \* the tools for which the repositories have a fit package
    MaxRev,     \* the newest revision
    MaxRuns,    \* runs of the installer
    MaxBackups, \* runs of backup.sh
    MaxTroubles \* aborted scripts and changes by hand

VARIABLES
    tools,      \* what the probe of the host finds; "daemon": docker info answers
    env,        \* the assignments of .env; "file" when it exists
    password,   \* DB_PASSWORD in .env, 0 when empty
    pc,         \* the step of install.sh
    run,        \* its shell variables
    source,     \* the revision of the working tree
    published,  \* the revisions of the two images in the registry
    app,        \* the containers of backend and frontend
    mount,      \* what is mounted on /data in the backend's container
    kept,       \* where the files are
    dir,        \* the directory chosen for them exists
    pg,         \* the container of the database
    volume,     \* the password the database was made with, 0 without a volume
    schema,     \* the migrations applied to it
    work,       \* what the application has written: its files, and their rows
    job,        \* the step of backup.sh
    backup,     \* its shell variables, and the archive
    runs, backups, troubles

host == <<tools, source, published>>
files == <<mount, kept, dir>>
data == <<pg, volume, schema, work>>
counts == <<runs, backups, troubles>>
vars == <<tools, env, password, pc, run, source, published, app, mount, kept,
          dir, pg, volume, schema, work, job, backup, runs, backups, troubles>>

Services == {"backend", "frontend"}
None == "none"
Keys == {"file", "urls", "cookie", "source", "type", "db", "secrets"}
NoApp == [state |-> None, rev |-> 0]
NoRun == [build |-> FALSE, created |-> FALSE, existing |-> FALSE,
          todo |-> <<>>, image |-> [s \in Services |-> 0], back |-> FALSE]
NoBackup == [was |-> FALSE, rows |-> 0, at |-> 0, files |-> 0, manifest |-> FALSE]
Stopped(c) == [c EXCEPT !.state = IF @ = None THEN None ELSE "stopped"]

Fresh == "fresh"
Legacy == "legacy"

Init ==
    \E h \in Hosts :
        /\ tools = IF h = Fresh THEN Present
                   ELSE {"docker", "daemon", "compose", "python3", "git"}
        /\ env = IF h = Fresh THEN {} ELSE {"file", "urls", "db", "secrets"}
        /\ password = IF h = Fresh THEN 0 ELSE MaxRuns + 1
        /\ volume = password
        /\ pg = IF h = Fresh THEN None ELSE "running"
        /\ app = [s \in Services |-> IF h = Fresh THEN NoApp
                                     ELSE [state |-> "running", rev |-> 1]]
        /\ mount = IF h = Fresh THEN None ELSE "volume"
        /\ kept = mount
        /\ schema = IF h = Fresh THEN 0 ELSE 1
        /\ source \in 1..MaxRev
        /\ published = [s \in Services |-> 1]
        /\ dir = FALSE /\ work = [files |-> 0, rows |-> 0]
        /\ pc = "idle" /\ run = NoRun /\ job = "idle" /\ backup = NoBackup
        /\ runs = 0 /\ backups = 0 /\ troubles = 0

-----------------------------------------------------------------------------
(* install.sh: the source, the environment, and the configuration            *)

(* Without docker its plugins cannot be probed; Buildx is looked for only    *)
(* when images are to be built.                                              *)
Needed(build) == {"docker", "compose", "python3", "git"}
                     \union IF build THEN {"buildx"} ELSE {}
Missing(found, build) ==
    {t \in Needed(build) : t \notin found
                           \/ (t \in {"compose", "buildx"} /\ "docker" \notin found)}
Blocked(found) == "docker" \in found /\ "daemon" \notin found
Fit(found, build) == Missing(found, build) = {} /\ ~Blocked(found)

Begin(build) ==
    /\ pc = "idle" /\ job = "idle" /\ runs < MaxRuns
    /\ runs' = runs + 1
    /\ run' = [NoRun EXCEPT !.build = build]
    /\ source' \in {source, MaxRev}  \* --skip-source-update, or fetch and merge
    /\ pc' = "probe"
    /\ UNCHANGED <<tools, env, password, published, app, files, data, job, backup,
                   backups, troubles>>

(* What follows a fit environment: the questions, or the build after a pull  *)
(* that failed.                                                              *)
After == IF run.back THEN "build" ELSE "confirm"

Probe ==
    /\ pc = "probe"
    /\ pc' = IF Fit(tools, run.build) THEN After
             ELSE IF Blocked(tools) THEN "idle" ELSE "consent"
    /\ UNCHANGED <<host, env, password, run, app, files, data, job, backup, counts>>

(* Answer 1: every missing tool has a candidate, or nothing is installed.    *)
(* The package manager may stop half-way, and the daemon need not be up.     *)
Packages ==
    /\ pc = "consent"
    /\ Missing(tools, run.build) \subseteq Offered
    /\ \E s \in SUBSET (Missing(tools, run.build)
                        \union (IF "docker" \in tools THEN {} ELSE {"daemon"})) :
           /\ tools' = tools \union s
           /\ pc' = IF Fit(tools \union s, run.build) THEN After ELSE "idle"
    /\ UNCHANGED <<env, password, run, source, published, app, files, data, job,
                   backup, counts>>

(* The upserts of a run, in order.  A key that is there is not generated.    *)
Upserts(created, existing) ==
    LET some(c, s) == IF c THEN s ELSE <<>>
    IN  some(created, <<"file">>) \o <<"urls">> \o some(created, <<"cookie">>)
          \o some(~existing, <<"source", "type">>) \o some(password = 0, <<"db">>)
          \o some(created, <<"secrets">>)

(* The operator confirms the addresses.  A new password is refused to data   *)
(* that exists, and an existing directory to a new installation.             *)
Existing == "file" \in env \/ kept = "volume" \/ volume # 0 \/ pg # None
            \/ \E s \in Services : app[s].state # None
Unsafe == password = 0 /\ (pg # None \/ volume # 0)
Taken == ~Existing /\ dir
Confirm ==
    /\ pc = "confirm"
    /\ IF Unsafe \/ Taken
       THEN pc' = "idle" /\ UNCHANGED <<run, dir>>
       ELSE /\ pc' = "env"
            /\ run' = [run EXCEPT !.created = "file" \notin env, !.existing = Existing,
                                  !.todo = Upserts("file" \notin env, Existing)]
            /\ dir' = (dir \/ ~Existing)
    /\ UNCHANGED <<host, env, password, app, mount, kept, data, job, backup, counts>>

(* One atomic replacement of .env.                                           *)
Upsert ==
    /\ pc = "env" /\ run.todo # <<>>
    /\ env' = env \union {Head(run.todo)}
    /\ password' = IF Head(run.todo) = "db" THEN runs ELSE password
    /\ run' = [run EXCEPT !.todo = Tail(@)]
    /\ UNCHANGED <<host, pc, app, files, data, job, backup, counts>>

(* What the compose file mounts on /data, given .env.                        *)
Desired == IF "source" \notin env THEN "volume"
           ELSE IF "type" \in env THEN "chosen" ELSE "broken"
Verified ==
    /\ Desired # "broken"
    /\ IF app["backend"].state # None THEN mount = Desired
       ELSE run.existing => (IF Desired = "volume" THEN kept = "volume" ELSE dir)

Config ==
    /\ pc = "env" /\ run.todo = <<>>
    /\ pc' = IF ~Verified THEN "idle" ELSE IF run.build THEN "probe" ELSE "pull"
    /\ run' = [run EXCEPT !.back = run.build]
    /\ UNCHANGED <<host, env, password, app, files, data, job, backup, counts>>

-----------------------------------------------------------------------------
(* The images and the services                                               *)

(* Both images of one revision, or the source is built.                      *)
Pull ==
    /\ pc = "pull"
    /\ \E got \in SUBSET Services :
           IF got = Services /\ published["backend"] = published["frontend"]
           THEN pc' = "postgres" /\ run' = [run EXCEPT !.image = published]
           ELSE pc' = "probe" /\ run' = [run EXCEPT !.build = TRUE, !.back = TRUE]
    /\ UNCHANGED <<host, env, password, app, files, data, job, backup, counts>>

Build ==
    /\ pc = "build"
    /\ pc' = IF Verified THEN "postgres" ELSE "idle"
    /\ run' = [run EXCEPT !.image = [s \in Services |-> source]]
    /\ UNCHANGED <<host, env, password, app, files, data, job, backup, counts>>

(* A container of the database is never made anew; its volume keeps the      *)
(* password it was made with.                                                *)
Postgres ==
    /\ pc = "postgres"
    /\ pg' = "running"
    /\ volume' = IF volume = 0 THEN password ELSE volume
    /\ pc' = "stop"
    /\ UNCHANGED <<host, env, password, run, app, files, schema, work, job, backup,
                   counts>>

StopApplication ==
    /\ pc = "stop"
    /\ app' = [s \in Services |-> Stopped(app[s])]
    /\ pc' = "plan"
    /\ UNCHANGED <<host, env, password, run, files, data, job, backup, counts>>

(* The plan needs the database's password and knows no newer migration; its  *)
(* container mounts /data.                                                   *)
Known == password = volume /\ schema <= run.image["backend"]
Plan ==
    /\ pc = "plan"
    /\ kept' = IF kept = None THEN Desired ELSE kept
    /\ pc' = IF Known THEN "migrate" ELSE "idle"
    /\ UNCHANGED <<host, env, password, run, app, mount, dir, data, job, backup,
                   counts>>

(* One transaction: the snapshot of an empty database, or one migration.     *)
Migrate ==
    /\ pc = "migrate"
    /\ LET rev == run.image["backend"]
       IN  IF schema < rev
           THEN schema' = (IF schema = 0 THEN rev ELSE schema + 1) /\ pc' = pc
           ELSE schema' = schema /\ pc' = "up"
    /\ UNCHANGED <<host, env, password, run, app, files, pg, volume, work, job,
                   backup, counts>>

(* The frontend depends on the backend and comes after it.                   *)
Up(s) ==
    /\ pc = "up"
    /\ (s = "frontend") = (app["backend"].state = "running")
    /\ app' = [app EXCEPT ![s] = [state |-> "running", rev |-> run.image[s]]]
    /\ mount' = IF s = "backend" THEN Desired ELSE mount
    /\ pc' = IF s = "backend" THEN pc ELSE "idle"
    /\ UNCHANGED <<host, env, password, run, kept, dir, data, job, backup, counts>>

-----------------------------------------------------------------------------
(* backup.sh                                                                 *)

BackupBegin ==
    /\ pc = "idle" /\ job = "idle" /\ backups < MaxBackups
    /\ app["backend"].state # None /\ pg = "running"
    /\ backups' = backups + 1
    /\ backup' = [NoBackup EXCEPT !.was = app["backend"].state = "running"]
    /\ job' = "stop"
    /\ UNCHANGED <<host, env, password, pc, run, app, files, data, runs, troubles>>

BackupStop ==
    /\ job = "stop"
    /\ app' = [app EXCEPT !["backend"] = Stopped(@)]
    /\ job' = "dump"
    /\ UNCHANGED <<host, env, password, pc, run, files, data, backup, counts>>

Dump ==
    /\ job = "dump"
    /\ backup' = [backup EXCEPT !.rows = work.rows, !.at = work.files]
    /\ job' = "archive"
    /\ UNCHANGED <<host, env, password, pc, run, app, files, data, counts>>

Archive ==
    /\ job = "archive"
    /\ backup' = [backup EXCEPT !.files = work.files]
    /\ job' = "manifest"
    /\ UNCHANGED <<host, env, password, pc, run, app, files, data, counts>>

(* restart_backend: only a backend that was running.                         *)
Restarted == IF backup.was THEN [app EXCEPT !["backend"].state = "running"] ELSE app

Manifest ==
    /\ job = "manifest"
    /\ backup' = [backup EXCEPT !.manifest = TRUE]
    /\ app' = Restarted
    /\ job' = "idle"
    /\ UNCHANGED <<host, env, password, pc, run, files, data, counts>>

-----------------------------------------------------------------------------
(* The rest of the world                                                     *)

(* A script is killed, cancelled, or a command of it fails.  backup.sh traps *)
(* all but SIGKILL.                                                          *)
Abort ==
    /\ troubles < MaxTroubles /\ troubles' = troubles + 1
    /\ pc # "idle" \/ job # "idle"
    /\ pc' = "idle" /\ job' = "idle"
    /\ app' \in IF job = "idle" THEN {app} ELSE {app, Restarted}
    /\ UNCHANGED <<host, env, password, run, files, data, backup, runs, backups>>

(* By hand: an assignment or the whole of .env is lost, or `down'.           *)
ByHand ==
    /\ troubles < MaxTroubles /\ troubles' = troubles + 1
    /\ pc = "idle" /\ job = "idle"
    /\ \/ /\ env' \in {{}, env \ {"source"}, env \ {"db"}}
          /\ password' = IF "db" \in env' THEN password ELSE 0
          /\ UNCHANGED <<app, pg, mount>>
       \/ /\ app' = [s \in Services |-> NoApp] /\ pg' = None /\ mount' = None
          /\ UNCHANGED <<env, password>>
    /\ UNCHANGED <<host, pc, run, kept, dir, volume, schema, work, job, backup, runs,
                   backups>>

Publish(s) ==
    /\ published[s] < MaxRev
    /\ published' = [published EXCEPT ![s] = MaxRev]
    /\ UNCHANGED <<tools, env, password, pc, run, source, app, files, data, job,
                   backup, counts>>

(* The application writes a file, then its row.                              *)
Use ==
    /\ app["backend"].state = "running"
    /\ \/ work.files = 0 /\ work' = [work EXCEPT !.files = 1]
       \/ work.files > work.rows /\ work' = [work EXCEPT !.rows = 1]
    /\ UNCHANGED <<host, env, password, pc, run, app, files, pg, volume, schema, job,
                   backup, counts>>

Next ==
    \/ \E b \in BOOLEAN : Begin(b)
    \/ Probe \/ Packages \/ Confirm \/ Upsert \/ Config \/ Pull \/ Build
    \/ Postgres \/ StopApplication \/ Plan \/ Migrate
    \/ \E s \in Services : Up(s) \/ Publish(s)
    \/ BackupBegin \/ BackupStop \/ Dump \/ Archive \/ Manifest
    \/ Abort \/ ByHand \/ Use

Spec == Init /\ [][Next]_vars

-----------------------------------------------------------------------------
(* Properties                                                                *)

TypeOK ==
    /\ tools \subseteq Needed(TRUE) \union {"daemon"}
    /\ env \subseteq Keys /\ password \in 0..MaxRuns + 1
    /\ pc \in {"idle", "probe", "consent", "confirm", "env", "pull", "build",
               "postgres", "stop", "plan", "migrate", "up"}
    /\ run.todo \in Seq(Keys) /\ run.image \in [Services -> 0..MaxRev]
    /\ source \in 1..MaxRev /\ published \in [Services -> 1..MaxRev]
    /\ app \in [Services -> [state : {None, "stopped", "running"}, rev : 0..MaxRev]]
    /\ {mount, kept} \subseteq {None, "volume", "chosen", "broken"}
    /\ dir \in BOOLEAN /\ pg \in {None, "running"}
    /\ volume \in 0..MaxRuns + 1 /\ schema \in 0..MaxRev
    /\ work \in [files : 0..1, rows : 0..1]
    /\ job \in {"idle", "stop", "dump", "archive", "manifest"}
    /\ runs \in 0..MaxRuns /\ backups \in 0..MaxBackups /\ troubles \in 0..MaxTroubles

(* Whatever was interrupted before, a backend runs only on the schema of its *)
(* own revision, and no frontend beside it is of another (install-runtime.sh *)
(* 63 and 142).                                                              *)
AppFitsSchema ==
    app["backend"].state = "running" =>
        /\ schema = app["backend"].rev
        /\ app["frontend"].state = "running" => app["frontend"].rev = schema

(* The installer never gives .env a password that the database was not made  *)
(* with (install-runtime.sh:89), and never mounts anything else than the     *)
(* place where the files are (install-storage.py:47).                        *)
DataStaysInReach ==
    /\ volume # 0 /\ password # 0 => password = volume
    /\ mount # None => mount = kept

(* A backup with its manifest has the rows and the files of one moment.      *)
BackupOfOneMoment == backup.manifest => backup.files = backup.at

DeploymentKept == AppFitsSchema /\ DataStaysInReach /\ BackupOfOneMoment
=============================================================================
