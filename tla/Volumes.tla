------------------------------- MODULE Volumes -------------------------------
(***************************************************************************)
(* caddy/deploy.go: on which volume deploy stages the Caddyfile, and under *)
(* which paths.  The file is written and renamed over SFTP, on the custom  *)
(* volume that resolveVolume finds or in the instance itself; it is vetted *)
(* and loaded by Caddy inside the instance, which sees its mounts.  Every  *)
(* attempt resolves the volume anew, from a map in an order of the run     *)
(* time's own.  The rest of a deployment is in Deploy.tla.                 *)
(*                                                                         *)
(* A path is the sequence of its components, a file a place with the path  *)
(* in there: a device, or the file system of the instance.                 *)
(***************************************************************************)
EXTENDS Naturals, Sequences, SequencesExt

CONSTANTS
    Devices,      \* names of the instance's disk devices
    Paths,        \* where they may be mounted
    Caddyfile,    \* caddyfilePath
    Contents,     \* the Caddyfiles that may be deployed
    Valid,        \* those that Caddy accepts
    Old,          \* what is there before
    Instance      \* the place that is no device: the instance's own file system

\* "tmp" is the name of the staging file, which the Caddyfile's cannot be: it is
\* that one with ".tmp" behind it.
VolumesAssumption ==
    /\ Caddyfile \in Seq(STRING) /\ Paths \subseteq Seq(STRING)
    /\ Len(Caddyfile) >= 2 /\ Last(Caddyfile) # "tmp"
    /\ Old \notin Contents /\ Instance \notin Devices

ASSUME VolumesAssumption

VARIABLES
    devices,      \* a device: its path, and whether it has a pool and a source
    pc,           \* of deploy; "idle" outside it
    content,      \* what is deployed
    running,      \* what GetInstance said of the instance
    vol,          \* the volume of this attempt; Instance when there is none
    files,        \* what is at which place
    cold          \* history: what the instance sees came while it did not run

vars == <<devices, pc, content, running, vol, files, cold>>

Below(mount, path) == SubSeq(path, Len(mount) + 1, Len(path))

\* What the instance sees under a path: the innermost mount has it.
Seen(path) ==
    LET over == {d \in Devices : IsPrefix(devices[d].path, path)}
    IN  IF over = {} THEN <<Instance, path>>
        ELSE LET inner == CHOOSE d \in over :
                            \A e \in over : Len(devices[e].path) <= Len(devices[d].path)
             IN  <<inner, Below(devices[inner].path, path)>>

\* containerStagingPath.
Beside(path) == Append(Front(path), "tmp")

\* resolveVolume: a volume over the Caddyfile, at whatever depth.
Matches(d) == devices[d].volume /\ IsPrefix(devices[d].path, Caddyfile)

\* sftpStagingPath: of a volume that is mounted on the Caddyfile itself, and so
\* has no name for it, the base name is ".".
StagingFile ==
    IF vol = Instance THEN Seen(Beside(Caddyfile))
    ELSE LET rel == Below(devices[vol].path, Caddyfile)
         IN  <<vol, IF rel = <<>> THEN <<"..tmp">> ELSE Beside(rel)>>

\* Mutant: the directory below the mount is forgotten.
TargetFileInRoot ==
    IF vol = Instance THEN Seen(Caddyfile) ELSE <<vol, <<Last(Caddyfile)>>>>

\* sftpTargetPath.
TargetFile ==
    IF vol = Instance THEN Seen(Caddyfile)
    ELSE <<vol, Below(devices[vol].path, Caddyfile)>>

Holding(file, c) == [f \in DOMAIN files \cup {file} |-> IF f = file THEN c ELSE files[f]]

-----------------------------------------------------------------------------
Deploy(c) ==
    /\ pc = "idle"
    /\ pc' = "resolve"
    /\ content' = c
    /\ UNCHANGED <<devices, running, vol, files, cold>>

Resolve ==
    /\ pc = "resolve"
    /\ pc' = "stage"
    /\ running' \in BOOLEAN
    /\ \/ \E d \in Devices : Matches(d) /\ vol' = d
       \/ (\A d \in Devices : ~Matches(d)) /\ vol' = Instance
    /\ UNCHANGED <<devices, content, files, cold>>

\* Mutant: the status is not looked at.
StageAlwaysVetted ==
    /\ pc = "stage"
    /\ pc' = "vet"
    /\ files' = Holding(StagingFile, content)
    /\ UNCHANGED <<devices, content, running, vol, cold>>

Stage ==
    /\ pc = "stage"
    /\ pc' = IF running THEN "vet" ELSE "rename"
    /\ files' = Holding(StagingFile, content)
    /\ UNCHANGED <<devices, content, running, vol, cold>>

\* Mutant: the errors are not looked at.
VetUnchecked ==
    /\ pc = "vet"
    /\ pc' = "rename"
    /\ UNCHANGED <<devices, content, running, vol, files, cold>>

\* caddy fmt and caddy validate, of the file the instance sees.
Vet ==
    /\ pc = "vet"
    /\ Seen(Beside(Caddyfile)) \in DOMAIN files
    /\ files[Seen(Beside(Caddyfile))] \in Valid
    /\ pc' = "rename"
    /\ UNCHANGED <<devices, content, running, vol, files, cold>>

\* A mount cannot be renamed over.
Rename ==
    /\ pc = "rename"
    /\ TargetFile[2] # <<>>
    /\ pc' = IF running THEN "reload" ELSE "done"
    /\ files' = [f \in (DOMAIN files \cup {TargetFile}) \ {StagingFile} |->
                    IF f = TargetFile THEN files[StagingFile] ELSE files[f]]
    /\ cold' = IF TargetFile = Seen(Caddyfile) THEN ~running ELSE cold
    /\ UNCHANGED <<devices, content, running, vol>>

Reload ==
    /\ pc = "reload"
    /\ pc' = "done"
    /\ UNCHANGED <<devices, content, running, vol, files, cold>>

\* Any call may fail; then there may be another attempt.
Fail ==
    /\ pc \in {"resolve", "stage", "vet", "rename", "reload"}
    /\ pc' \in {"resolve", "idle"}
    /\ UNCHANGED <<devices, content, running, vol, files, cold>>

Return ==
    /\ pc = "done"
    /\ pc' = "idle"
    /\ UNCHANGED <<devices, content, running, vol, files, cold>>

Init ==
    /\ devices \in [Devices -> [path : Paths, volume : BOOLEAN]]
    /\ IsInjective([d \in Devices |-> devices[d].path])
    /\ pc = "idle"
    /\ content = Old
    /\ running = TRUE
    /\ vol = Instance
    /\ files = [f \in {Seen(Caddyfile)} |-> Old]
    /\ cold = FALSE

Next ==
    \/ \E c \in Contents : Deploy(c)
    \/ Resolve \/ Stage \/ Vet \/ Rename \/ Reload \/ Fail \/ Return

Spec == Init /\ [][Next]_vars

-----------------------------------------------------------------------------
(* Properties.                                                             *)

Places == Devices \cup {Instance}

TypeOK ==
    /\ devices \in [Devices -> [path : Paths, volume : BOOLEAN]]
    /\ pc \in {"idle", "resolve", "stage", "vet", "rename", "reload", "done"}
    /\ pc \in {"vet", "reload"} => running
    /\ content \in Contents \cup {Old}
    /\ {running, cold} \subseteq BOOLEAN
    /\ vol \in Places
    /\ \A f \in DOMAIN files : f[1] \in Places /\ files[f] \in Contents \cup {Old}

\* Mounts are not nested over the Caddyfile.
Plain == \A d, e \in {d \in Devices : IsPrefix(devices[d].path, Caddyfile)} : d = e

\* A deployment that succeeds has put its file where Caddy reads it, at whatever
\* depth the volume is mounted.  With nested mounts it may have put it below
\* another one: resolveVolume takes any volume over the Caddyfile.
SuccessReaches == pc = "done" /\ Plain => files[Seen(Caddyfile)] = content

\* With nested mounts too, what Caddy reads has been vetted if the instance ran:
\* also when an attempt stages on one volume and vets what an earlier one has
\* left on another.
SeenIsVetted ==
    Seen(Caddyfile) \in DOMAIN files /\ ~cold => files[Seen(Caddyfile)] \in Valid \cup {Old}
=============================================================================
