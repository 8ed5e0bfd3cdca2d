---------------------------- MODULE VolumesProofs ----------------------------
(***************************************************************************)
(* What Volumes.tla guarantees for any devices, mounted anywhere, proved:  *)
(* a deployment that succeeds has reached the file Caddy reads, and that   *)
(* file is never one that has not been vetted while the instance ran.      *)
(***************************************************************************)
EXTENDS Volumes, SequenceTheorems, WellFoundedInduction, TLAPS

\* The devices are mounted somewhere, and no two in one place.
Mounted ==
    /\ devices \in [Devices -> [path : Paths, volume : BOOLEAN]]
    /\ IsInjective([d \in Devices |-> devices[d].path])

\* The volume of an attempt is one over the Caddyfile, if there is any.
Fitting ==
    \/ vol \in Devices /\ Matches(vol)
    \/ vol = Instance /\ \A d \in Devices : ~Matches(d)

\* The attempt that is on its way has such a volume.
Chosen ==
    pc \in {"stage", "vet", "rename", "reload", "done"} => Fitting

\* What is staged is what is deployed.
Staged ==
    pc \in {"vet", "rename"} => StagingFile \in DOMAIN files /\ files[StagingFile] = content

\* A running instance has vetted what it sees beside the Caddyfile.
Vetted ==
    pc = "rename" /\ running =>
        /\ Seen(Beside(Caddyfile)) \in DOMAIN files
        /\ files[Seen(Beside(Caddyfile))] \in Valid

\* A volume that is a mounted file is neither staged in nor renamed over.
NoneOverMount ==
    (\E d \in Devices : Matches(d)) => \A f \in DOMAIN files : f[2] # <<>> \/ f = Seen(Caddyfile)

\* From the rename on the file Caddy reads is the one that is deployed.
Published == pc \in {"reload", "done"} /\ Plain => files[Seen(Caddyfile)] = content

\* The inductive invariant of resolveVolume and what deploy does with its volume.
Inductive ==
    /\ TypeOK /\ Mounted
    /\ Chosen /\ Staged /\ Vetted /\ NoneOverMount /\ Published
    /\ SeenIsVetted

-----------------------------------------------------------------------------
(* Paths.                                                                  *)

\* "tmp" is a string, which the provers do not know.
Name == STRING \cup {"tmp"}
Path == Seq(Name)

LEMMA PrefixIsEntries ==
    ASSUME NEW s \in Path, NEW t \in Path
    PROVE  IsPrefix(s, t) <=> Len(s) <= Len(t) /\ \A i \in 1..Len(s) : s[i] = t[i]
<1> USE DEF Path
<1>1. SubSeq(s, 1, Len(s)) = s
    BY SubSeqFull
<1>2. ASSUME Len(s) <= Len(t)
      PROVE  /\ SubSeq(t, 1, Len(s)) \in Path /\ Len(SubSeq(t, 1, Len(s))) = Len(s)
             /\ \A i \in 1..Len(s) : SubSeq(t, 1, Len(s))[i] = t[i]
    <2>1. \A i \in 1..Len(s) : t[i] \in Name
        BY <1>2, LenProperties, ElementOfSeq
    <2>2. Len(s) \in Nat
        BY LenProperties
    <2> QED
        BY <2>1, <2>2, SubSeqProperties
<1>3. ASSUME Len(s) <= Len(t), \A i \in 1..Len(s) : s[i] = t[i]
      PROVE  s = SubSeq(t, 1, Len(s))
    BY <1>2, <1>3, SeqEqual
<1> QED
    BY <1>1, <1>2, <1>3 DEF IsPrefix

\* The staging path is as deep, and differs in the name only.
LEMMA BesideEntries ==
    ASSUME NEW p \in Path, p # <<>>
    PROVE  /\ Beside(p) \in Path /\ Beside(p) # <<>> /\ Len(Beside(p)) = Len(p)
           /\ \A i \in 1..(Len(p) - 1) : Beside(p)[i] = p[i]
           /\ Beside(p)[Len(p)] = "tmp"
<1> USE DEF Path
<1>1. Len(p) \in Nat /\ Len(p) >= 1
    <2>1. Len(p) \in Nat \ {0}
        BY EmptySeq
    <2> QED
        BY <2>1
<1>2. \A i \in 1..(Len(p) - 1) : p[i] \in Name
    BY <1>1, ElementOfSeq
<1>3. /\ Front(p) \in Path /\ Len(Front(p)) = Len(p) - 1
      /\ \A i \in 1..(Len(p) - 1) : Front(p)[i] = p[i]
    <2>1. /\ SubSeq(p, 1, Len(p) - 1) \in Path
          /\ Len(SubSeq(p, 1, Len(p) - 1)) = IF 1 <= Len(p) - 1 THEN Len(p) - 1 - 1 + 1 ELSE 0
          /\ \A i \in 1..(Len(p) - 1 - 1 + 1) : SubSeq(p, 1, Len(p) - 1)[i] = p[1 + i - 1]
        <3>1. 1 \in Int /\ Len(p) - 1 \in Int
            BY <1>1
        <3> QED
            BY <1>2, <3>1, SubSeqProperties
    <2>2. Len(SubSeq(p, 1, Len(p) - 1)) = Len(p) - 1
        <3>1. PICK n \in Nat : n = Len(p)
            BY <1>1
        <3>2. Len(SubSeq(p, 1, Len(p) - 1)) = IF 1 <= n - 1 THEN n - 1 - 1 + 1 ELSE 0
            BY <2>1, <3>1
        <3>3. Len(SubSeq(p, 1, Len(p) - 1)) = n - 1
            BY <1>1, <3>1, <3>2
        <3> QED
            BY <3>1, <3>3
    <2>3. ASSUME NEW i \in 1..(Len(p) - 1)
          PROVE  SubSeq(p, 1, Len(p) - 1)[i] = p[i]
        <3>1. i \in 1..(Len(p) - 1 - 1 + 1) /\ 1 + i - 1 = i
            BY <1>1
        <3>2. SubSeq(p, 1, Len(p) - 1)[i] = p[1 + i - 1]
            BY <2>1, <3>1
        <3> QED
            BY <3>1, <3>2
    <2> QED
        BY <2>1, <2>2, <2>3 DEF Front
<1>4. /\ Append(Front(p), "tmp") \in Path /\ Append(Front(p), "tmp") # <<>>
      /\ Len(Append(Front(p), "tmp")) = Len(Front(p)) + 1
      /\ \A i \in 1..Len(Front(p)) : Append(Front(p), "tmp")[i] = Front(p)[i]
      /\ Append(Front(p), "tmp")[Len(Front(p)) + 1] = "tmp"
    <2>1. "tmp" \in Name
        BY DEF Name
    <2> QED
        BY <1>3, <2>1, AppendProperties
<1> QED
    BY <1>1, <1>3, <1>4 DEF Beside

\* What is left of a path below a mount.
LEMMA BelowEntries ==
    ASSUME NEW m \in Path, NEW p \in Path, Len(m) <= Len(p)
    PROVE  /\ Below(m, p) \in Path /\ Len(Below(m, p)) = Len(p) - Len(m)
           /\ \A i \in 1..(Len(p) - Len(m)) : Below(m, p)[i] = p[Len(m) + i]
<1> USE DEF Path
<1>1. Len(m) \in Nat /\ Len(p) \in Nat
    BY LenProperties
<1>2. \A i \in (Len(m) + 1)..Len(p) : p[i] \in Name
    BY <1>1, ElementOfSeq
<1>3. /\ Below(m, p) \in Path
      /\ Len(Below(m, p)) = IF Len(m) + 1 <= Len(p) THEN Len(p) - (Len(m) + 1) + 1 ELSE 0
      /\ \A i \in 1..(Len(p) - (Len(m) + 1) + 1) : Below(m, p)[i] = p[Len(m) + 1 + i - 1]
    BY <1>1, <1>2, SubSeqProperties DEF Below
<1> QED
    BY <1>1, <1>3

\* Below a mount that is not the path itself, beside stays beside.
LEMMA BelowBeside ==
    ASSUME NEW m \in Path, NEW p \in Path, Len(m) < Len(p)
    PROVE  /\ Below(m, p) # <<>>
           /\ Below(m, Beside(p)) = Beside(Below(m, p))
<1>0. Len(m) \in Nat /\ Len(p) \in Nat /\ p # <<>>
    BY LenProperties, EmptySeq DEF Path
<1> DEFINE l == Below(m, Beside(p))
           r == Beside(Below(m, p))
<1>1. /\ Below(m, p) \in Path /\ Len(Below(m, p)) = Len(p) - Len(m)
      /\ \A i \in 1..(Len(p) - Len(m)) : Below(m, p)[i] = p[Len(m) + i]
    BY <1>0, BelowEntries
<1>2. Below(m, p) # <<>>
    BY <1>0, <1>1, EmptySeq
<1>3. /\ Beside(p) \in Path /\ Len(Beside(p)) = Len(p)
      /\ \A i \in 1..(Len(p) - 1) : Beside(p)[i] = p[i]
      /\ Beside(p)[Len(p)] = "tmp"
    BY <1>0, BesideEntries
<1>4. /\ l \in Path /\ Len(l) = Len(p) - Len(m)
      /\ \A i \in 1..(Len(p) - Len(m)) : l[i] = Beside(p)[Len(m) + i]
    BY <1>0, <1>3, BelowEntries
<1>5. /\ r \in Path /\ Len(r) = Len(p) - Len(m)
      /\ \A i \in 1..(Len(p) - Len(m) - 1) : r[i] = Below(m, p)[i]
      /\ r[Len(p) - Len(m)] = "tmp"
    BY <1>1, <1>2, BesideEntries
<1>6. ASSUME NEW i \in 1..Len(l)
      PROVE  l[i] = r[i]
    <2> HIDE DEF l, r
    <2>1. l[i] = Beside(p)[Len(m) + i] /\ i \in Nat \ {0} /\ i <= Len(p) - Len(m)
        BY <1>0, <1>4
    <2>2. CASE i = Len(p) - Len(m)
        <3>1. Len(m) + i = Len(p)
            BY <1>0, <2>1, <2>2
        <3> QED
            BY <1>3, <1>5, <2>1, <2>2, <3>1
    <2>3. CASE i < Len(p) - Len(m)
        <3>1. Len(m) + i \in 1..(Len(p) - 1) /\ i \in 1..(Len(p) - Len(m) - 1)
            BY <1>0, <2>1, <2>3
        <3>2. l[i] = p[Len(m) + i]
            BY <1>3, <2>1, <3>1
        <3>3. r[i] = p[Len(m) + i]
            BY <1>0, <1>1, <1>5, <2>1, <3>1
        <3> QED
            BY <3>2, <3>3
    <2> QED
        BY <1>0, <2>1, <2>2, <2>3
<1>7. l = r
    BY <1>4, <1>5, <1>6, SeqEqual DEF Path
<1> QED
    BY <1>2, <1>7

\* Nothing is below a mount on the path itself.
LEMMA BelowNone ==
    ASSUME NEW m \in Path, NEW p \in Path, ~(Len(m) < Len(p))
    PROVE  Below(m, p) = <<>>
<1>1. Len(m) \in Nat /\ Len(p) \in Nat
    BY LenProperties DEF Path
<1>2. Len(m) + 1 \in Int /\ Len(p) \in Int /\ Len(p) < Len(m) + 1
    BY <1>1
<1> QED
    BY <1>2, SubSeqEmpty DEF Below

\* Two mounts over one path are the same, or the one is in the other.
LEMMA OverOne ==
    ASSUME NEW m \in Path, NEW n \in Path, NEW p \in Path,
           IsPrefix(m, p), IsPrefix(n, p), Len(m) = Len(n)
    PROVE  m = n
<1>1. \A i \in 1..Len(m) : m[i] = p[i] /\ n[i] = p[i]
    BY PrefixIsEntries
<1> QED
    BY <1>1, SeqEqual DEF Path

\* A mount over a path, and not on it, is one over what is beside it.
LEMMA OverBeside ==
    ASSUME NEW m \in Path, NEW p \in Path, Len(m) < Len(p)
    PROVE  IsPrefix(m, Beside(p)) <=> IsPrefix(m, p)
<1>1. p # <<>> /\ Len(m) \in Nat /\ Len(p) \in Nat
    BY LenProperties, EmptySeq DEF Path
<1>2. /\ Beside(p) \in Path /\ Len(Beside(p)) = Len(p)
      /\ \A i \in 1..(Len(p) - 1) : Beside(p)[i] = p[i]
    BY <1>1, BesideEntries
<1> QED
    BY <1>1, <1>2, PrefixIsEntries

-----------------------------------------------------------------------------
(* What the instance sees.                                                 *)

\* Among the devices over a path one is mounted the deepest.
LEMMA Deepest ==
    ASSUME NEW p \in Path, NEW over \in SUBSET Devices, over # {},
           \A d \in over : devices[d].path \in Path /\ Len(devices[d].path) <= Len(p)
    PROVE  \E d \in over : \A e \in over : Len(devices[e].path) <= Len(devices[d].path)
<1> DEFINE Room(d) == Len(p) - Len(devices[d].path)
           Rooms == {Room(d) : d \in over}
           Less == OpToRel(<, Nat)
<1>1. \A d \in over : Room(d) \in Nat /\ Len(devices[d].path) \in Nat /\ Len(p) \in Nat
    BY LenProperties DEF Path
<1>2. Rooms \subseteq Nat /\ Rooms # {}
    BY <1>1
<1>3. \E r \in Rooms : \A q \in Rooms : ~(<<q, r>> \in Less)
    <2> HIDE DEF Rooms
    <2> QED
        BY <1>2, NatLessThanWellFounded, WFMin
<1>4. PICK r \in Rooms : \A q \in Rooms : ~(<<q, r>> \in Less)
    BY <1>3
<1>5. PICK d \in over : r = Room(d)
    OBVIOUS
<1>6. ASSUME NEW e \in over
      PROVE  Len(devices[e].path) <= Len(devices[d].path)
    <2>1. ~(Room(e) < Room(d))
        <3>1. ~(<<Room(e), Room(d)>> \in Less)
            BY <1>4, <1>5
        <3>2. <<Room(e), Room(d)>> \in Nat \X Nat
            BY <1>1
        <3> HIDE DEF Room
        <3> QED
            BY <3>1, <3>2 DEF OpToRel
    <2> QED
        BY <1>1, <2>1
<1> QED
    BY <1>6

Over(p) == {d \in Devices : IsPrefix(devices[d].path, p)}

LEMMA MountPath ==
    ASSUME Mounted, NEW d \in Devices
    PROVE  devices[d].path \in Path /\ \A e \in Devices : devices[d].path = devices[e].path => d = e
<1>1. devices[d].path \in Seq(STRING)
    BY VolumesAssumption DEF VolumesAssumption, Mounted
<1>2. devices[d].path \in Path
    BY <1>1, SeqMonotonic DEF Path, Name
<1> QED
    BY <1>2 DEF Mounted, IsInjective

\* The instance sees a path on the innermost device over it, or on its own file
\* system.
LEMMA SeenOnInnermost ==
    ASSUME Mounted, NEW p \in Path
    PROVE  \/ Over(p) = {} /\ Seen(p) = <<Instance, p>>
           \/ \E d \in Over(p) :
                /\ \A e \in Over(p) : Len(devices[e].path) <= Len(devices[d].path)
                /\ Seen(p) = <<d, Below(devices[d].path, p)>>
<1>1. CASE Over(p) = {}
    BY <1>1 DEF Seen, Over
<1>2. CASE Over(p) # {}
    <2> DEFINE Inner(d) == \A e \in Over(p) : Len(devices[e].path) <= Len(devices[d].path)
    <2>1. \E d \in Over(p) : Inner(d)
        <3>1. \A d \in Over(p) : devices[d].path \in Path /\ Len(devices[d].path) <= Len(p)
            BY MountPath DEF Over, IsPrefix
        <3>2. Over(p) \in SUBSET Devices
            BY DEF Over
        <3> QED
            BY <1>2, <3>1, <3>2, Deepest
    <2> DEFINE inner == CHOOSE d \in Over(p) : Inner(d)
    <2>2. inner \in Over(p) /\ Inner(inner)
        BY <2>1
    <2>3. Seen(p) = <<inner, Below(devices[inner].path, p)>>
        BY <1>2 DEF Seen, Over
    <2> QED
        BY <2>2, <2>3
<1> QED
    BY <1>1, <1>2

-----------------------------------------------------------------------------
(* The staging file and the file Caddy reads.                              *)

\* A path that may be the Caddyfile's: it has a name, which is not the staging
\* file's.
Named(p) == p \in Path /\ p # <<>> /\ p[Len(p)] # "tmp"

LEMMA CaddyfileNamed == Named(Caddyfile)
<1>1. Caddyfile \in Path /\ Len(Caddyfile) >= 2 /\ Caddyfile[Len(Caddyfile)] # "tmp"
    BY VolumesAssumption, SeqMonotonic DEF VolumesAssumption, Path, Name, Last
<1>2. Caddyfile # <<>>
    BY <1>1, EmptySeq
<1> QED
    BY <1>1, <1>2 DEF Named

LEMMA BesideApart ==
    ASSUME NEW p, Named(p)
    PROVE  Beside(p) # p
BY BesideEntries DEF Named

LEMMA BelowNamed ==
    ASSUME NEW m \in Path, NEW p, Named(p), Len(m) < Len(p)
    PROVE  Named(Below(m, p))
<1>1. Len(m) \in Nat /\ Len(p) \in Nat
    BY LenProperties DEF Named, Path
<1>2. /\ Below(m, p) \in Path /\ Len(Below(m, p)) = Len(p) - Len(m)
      /\ \A i \in 1..(Len(p) - Len(m)) : Below(m, p)[i] = p[Len(m) + i]
    BY <1>1, BelowEntries DEF Named
<1>3. Len(p) - Len(m) \in 1..(Len(p) - Len(m)) /\ Len(m) + (Len(p) - Len(m)) = Len(p)
    BY <1>1
<1>4. Below(m, p)[Len(Below(m, p))] = p[Len(p)]
    BY <1>2, <1>3
<1>5. Below(m, p) # <<>>
    BY BelowBeside DEF Named
<1> QED
    BY <1>2, <1>4, <1>5 DEF Named

\* Over the path and over what is beside it: not a mount on either.
LEMMA OverBoth ==
    ASSUME NEW m \in Path, NEW p, Named(p), IsPrefix(m, p), IsPrefix(m, Beside(p))
    PROVE  Len(m) < Len(p)
<1>1. PICK k \in Nat, n \in Nat : k = Len(m) /\ n = Len(p)
    BY LenProperties DEF Named, Path
<1>2. k <= n /\ n >= 1
    BY <1>1, EmptySeq DEF Named, IsPrefix, Path
<1>3. CASE k = n
    <2>1. n \in 1..Len(m)
        BY <1>1, <1>2, <1>3
    <2>2. m[n] = p[n]
        BY <2>1, PrefixIsEntries DEF Named
    <2>3. m[n] = Beside(p)[n]
        BY <2>1, PrefixIsEntries, BesideEntries DEF Named
    <2> QED
        BY <1>1, <2>2, <2>3, BesideEntries DEF Named
<1> QED
    BY <1>1, <1>2, <1>3

\* The instance does not see the staging file where it sees the Caddyfile.
LEMMA SeenApart ==
    ASSUME Mounted, NEW p, Named(p)
    PROVE  Seen(Beside(p)) # Seen(p)
<1>1. p \in Path /\ Beside(p) \in Path /\ Beside(p) # p
    BY BesideEntries, BesideApart DEF Named
<1> SUFFICES ASSUME Seen(Beside(p)) = Seen(p)
             PROVE  FALSE
    OBVIOUS
<1>2. Instance \notin Devices
    BY VolumesAssumption DEF VolumesAssumption
<1>3. PICK d \in Devices : /\ IsPrefix(devices[d].path, p) /\ IsPrefix(devices[d].path, Beside(p))
                           /\ Seen(p) = <<d, Below(devices[d].path, p)>>
                           /\ Seen(Beside(p)) = <<d, Below(devices[d].path, Beside(p))>>
    <2>1. \/ Seen(p) = <<Instance, p>>
          \/ \E d \in Devices : /\ IsPrefix(devices[d].path, p)
                                /\ Seen(p) = <<d, Below(devices[d].path, p)>>
        BY <1>1, SeenOnInnermost DEF Over
    <2>2. \/ Seen(Beside(p)) = <<Instance, Beside(p)>>
          \/ \E d \in Devices : /\ IsPrefix(devices[d].path, Beside(p))
                                /\ Seen(Beside(p)) = <<d, Below(devices[d].path, Beside(p))>>
        BY <1>1, SeenOnInnermost DEF Over
    <2> QED
        BY <1>1, <1>2, <2>1, <2>2
<1> DEFINE m == devices[d].path
<1>4. m \in Path
    BY MountPath
<1>5. Len(m) < Len(p)
    BY <1>3, <1>4, OverBoth
<1>6. Below(m, Beside(p)) = Beside(Below(m, p)) /\ Named(Below(m, p))
    BY <1>1, <1>4, <1>5, BelowBeside, BelowNamed
<1>7. Below(m, Beside(p)) # Below(m, p)
    BY <1>6, BesideApart
<1> QED
    BY <1>3, <1>7

\* On a volume the Caddyfile has a name, unless the volume is mounted on it.
LEMMA OnVolume ==
    ASSUME Mounted, NEW d \in Devices, IsPrefix(devices[d].path, Caddyfile)
    PROVE  \/ Below(devices[d].path, Caddyfile) = <<>>
           \/ /\ Len(devices[d].path) < Len(Caddyfile)
              /\ Named(Below(devices[d].path, Caddyfile))
<1> DEFINE m == devices[d].path
<1>1. m \in Path /\ Caddyfile \in Path
    BY MountPath, CaddyfileNamed DEF Named
<1>2. CASE Len(m) < Len(Caddyfile)
    BY <1>1, <1>2, BelowNamed, CaddyfileNamed
<1>3. CASE ~(Len(m) < Len(Caddyfile))
    BY <1>1, <1>3, BelowNone
<1> QED
    BY <1>2, <1>3

\* The instance sees the Caddyfile on a device over it, or on none.
LEMMA SeenCaddyfile ==
    ASSUME Mounted
    PROVE  \/ Over(Caddyfile) = {} /\ Seen(Caddyfile) = <<Instance, Caddyfile>>
           \/ \E d \in Over(Caddyfile) :
                /\ \A e \in Over(Caddyfile) : Len(devices[e].path) <= Len(devices[d].path)
                /\ Seen(Caddyfile) = <<d, Below(devices[d].path, Caddyfile)>>
BY SeenOnInnermost, CaddyfileNamed DEF Named

\* What is staged is neither what Caddy reads nor what is renamed over.
LEMMA StagingApart ==
    ASSUME Mounted, Fitting
    PROVE  /\ StagingFile # Seen(Caddyfile)
           /\ TargetFile[2] # <<>> => StagingFile # TargetFile
           /\ vol \in Devices => StagingFile[2] # <<>>
<1>0. Instance \notin Devices
    BY VolumesAssumption DEF VolumesAssumption
<1>1. CASE vol = Instance
    <2>1. StagingFile = Seen(Beside(Caddyfile)) /\ TargetFile = Seen(Caddyfile)
        BY <1>1 DEF StagingFile, TargetFile
    <2> QED
        BY <1>0, <1>1, <2>1, SeenApart, CaddyfileNamed
<1>2. CASE vol \in Devices /\ Matches(vol)
    <2> DEFINE rel == Below(devices[vol].path, Caddyfile)
    <2>1. TargetFile = <<vol, rel>>
          /\ StagingFile = <<vol, IF rel = <<>> THEN <<"..tmp">> ELSE Beside(rel)>>
        BY <1>0, <1>2 DEF TargetFile, StagingFile
    <2>2. IsPrefix(devices[vol].path, Caddyfile)
        BY <1>2 DEF Matches
    <2>3. (IF rel = <<>> THEN <<"..tmp">> ELSE Beside(rel)) \notin {rel, <<>>}
        <3>1. CASE rel = <<>>
            <4>1. <<"..tmp">> # <<>>
                OBVIOUS
            <4> QED
                BY <3>1, <4>1
        <3>2. CASE rel # <<>>
            <4>1. Named(rel)
                BY <1>2, <2>2, <3>2, OnVolume
            <4>2. Beside(rel) # rel /\ Beside(rel) # <<>>
                BY <4>1, BesideApart, BesideEntries DEF Named
            <4> QED
                BY <3>2, <4>2
        <3> QED
            BY <3>1, <3>2
    <2>4. ASSUME StagingFile = Seen(Caddyfile)
          PROVE  FALSE
        <3> HIDE DEF rel
        <3>1. Seen(Caddyfile) = <<vol, IF rel = <<>> THEN <<"..tmp">> ELSE Beside(rel)>>
            BY <2>1, <2>4
        <3>2. \E d \in Devices : Seen(Caddyfile) = <<d, Below(devices[d].path, Caddyfile)>>
            BY <1>0, <1>2, <3>1, SeenCaddyfile DEF Over
        <3>3. Seen(Caddyfile) = <<vol, rel>>
            BY <3>1, <3>2 DEF rel
        <3> QED
            BY <2>3, <3>1, <3>3
    <2> QED
        BY <2>1, <2>3, <2>4
<1> QED
    BY <1>1, <1>2 DEF Fitting

\* Both files are in places there are.
LEMMA FilesInPlaces ==
    ASSUME Mounted, Fitting
    PROVE  /\ StagingFile[1] \in Places /\ TargetFile[1] \in Places
           /\ Seen(Caddyfile)[1] \in Places
<1>1. Seen(Caddyfile)[1] \in Places
    BY SeenCaddyfile DEF Places, Over
<1>2. Seen(Beside(Caddyfile))[1] \in Places
    BY SeenOnInnermost, CaddyfileNamed, BesideEntries DEF Named, Places, Over
<1> QED
    BY <1>1, <1>2 DEF Fitting, StagingFile, TargetFile, Places

\* Without nested mounts any volume over the Caddyfile is the one it is seen on.
LEMMA PlainTarget ==
    ASSUME Mounted, Fitting, Plain
    PROVE  TargetFile = Seen(Caddyfile)
<1>1. CASE vol = Instance
    BY <1>1 DEF TargetFile
<1>2. CASE vol # Instance /\ vol \in Devices /\ Matches(vol)
    <2>1. vol \in Over(Caddyfile) /\ \A d \in Over(Caddyfile) : d = vol
        BY <1>2 DEF Matches, Over, Plain
    <2>2. Seen(Caddyfile) = <<vol, Below(devices[vol].path, Caddyfile)>>
        BY <2>1, SeenCaddyfile
    <2> QED
        BY <1>2, <2>2 DEF TargetFile
<1> QED
    BY <1>1, <1>2 DEF Fitting

\* When a rename is about to replace what Caddy reads, what was vetted is what was
\* staged, however the mounts are nested.
LEMMA StagedIsVetted ==
    ASSUME Mounted, Fitting, NoneOverMount, TargetFile = Seen(Caddyfile), TargetFile[2] # <<>>,
           Seen(Beside(Caddyfile)) \in DOMAIN files
    PROVE  StagingFile = Seen(Beside(Caddyfile))
<1>0. Instance \notin Devices
    BY VolumesAssumption DEF VolumesAssumption
<1>1. CASE vol = Instance
    BY <1>1 DEF StagingFile
<1>2. CASE vol \in Devices /\ Matches(vol)
    <2> DEFINE m == devices[vol].path
               rel == Below(m, Caddyfile)
    <2>0. /\ Caddyfile \in Path /\ Caddyfile # <<>>
          /\ Beside(Caddyfile) \in Path /\ Len(Beside(Caddyfile)) = Len(Caddyfile)
        BY CaddyfileNamed, BesideEntries DEF Named
    <2>1. /\ TargetFile = <<vol, rel>> /\ rel # <<>>
          /\ StagingFile = <<vol, Beside(rel)>>
          /\ IsPrefix(m, Caddyfile)
        BY <1>0, <1>2 DEF TargetFile, StagingFile, Matches
    <2>2. m \in Path /\ Len(m) < Len(Caddyfile)
        BY <1>2, <2>1, OnVolume, MountPath
    <2>3. Below(m, Beside(Caddyfile)) = Beside(rel) /\ IsPrefix(m, Beside(Caddyfile))
        BY <2>0, <2>1, <2>2, BelowBeside, OverBeside
    <2>4. \A e \in Over(Caddyfile) : Len(devices[e].path) <= Len(m)
        BY <1>0, <1>2, <2>1, SeenCaddyfile
    <2>5. PICK d \in Devices :
                /\ IsPrefix(devices[d].path, Beside(Caddyfile))
                /\ Len(m) <= Len(devices[d].path)
                /\ Seen(Beside(Caddyfile)) = <<d, Below(devices[d].path, Beside(Caddyfile))>>
        BY <1>2, <2>0, <2>3, SeenOnInnermost DEF Over
    <2> DEFINE n == devices[d].path
    <2>6. n \in Path /\ Len(n) \in Nat /\ Len(m) \in Nat /\ Len(Caddyfile) \in Nat
        BY <2>0, <2>2, MountPath, LenProperties DEF Path
    <2>7. CASE Len(n) < Len(Caddyfile)
        <3>1. IsPrefix(n, Caddyfile)
            BY <2>0, <2>5, <2>6, <2>7, OverBeside
        <3>2. Len(n) <= Len(m)
            BY <2>4, <3>1 DEF Over
        <3>3. Len(n) = Len(m)
            BY <2>5, <2>6, <3>2
        <3>4. n = m
            BY <2>0, <2>1, <2>2, <2>6, <3>1, <3>3, OverOne
        <3>5. d = vol
            BY <1>2, <3>4, MountPath
        <3> QED
            BY <2>1, <2>3, <2>5, <3>5
    <2>8. CASE ~(Len(n) < Len(Caddyfile))
        <3>1. Below(n, Beside(Caddyfile)) = <<>>
            BY <2>0, <2>6, <2>8, BelowNone
        <3>2. Seen(Beside(Caddyfile))[2] = <<>>
            BY <2>5, <3>1
        <3>3. Seen(Beside(Caddyfile)) # Seen(Caddyfile)
            BY SeenApart, CaddyfileNamed
        <3> QED
            BY <1>2, <3>2, <3>3 DEF NoneOverMount
    <2> QED
        BY <2>7, <2>8
<1> QED
    BY <1>1, <1>2 DEF Fitting

-----------------------------------------------------------------------------
(* Safety.                                                                 *)

\* The mounts stay as they are, and so does what is seen through them.
LEMMA SameMounts ==
    ASSUME devices' = devices
    PROVE  /\ Seen(Caddyfile)' = Seen(Caddyfile)
           /\ Seen(Beside(Caddyfile))' = Seen(Beside(Caddyfile))
           /\ Plain' = Plain /\ Mounted' = Mounted
           /\ \A d \in Devices : Matches(d)' = Matches(d)
<1>1. Seen(Caddyfile)' = Seen(Caddyfile)
    BY DEF Seen, Below
<1>2. Seen(Beside(Caddyfile))' = Seen(Beside(Caddyfile))
    BY DEF Seen, Below, Beside, Front
<1> QED
    BY <1>1, <1>2 DEF Plain, Mounted, Matches

LEMMA SameVolume ==
    ASSUME devices' = devices, vol' = vol
    PROVE  StagingFile' = StagingFile /\ TargetFile' = TargetFile /\ Fitting' = Fitting
BY SameMounts DEF StagingFile, TargetFile, Fitting, Below, Beside, Front, Matches

LEMMA InductiveInit == Init => Inductive
<1> SUFFICES ASSUME Init
             PROVE  Inductive
    OBVIOUS
<1>1. Mounted
    BY DEF Init, Mounted
<1>2. TypeOK
    <2>1. Seen(Caddyfile)[1] \in Places
        BY <1>1, SeenCaddyfile DEF Places, Over
    <2> QED
        BY <2>1 DEF Init, TypeOK, Places
<1>3. Chosen /\ Staged /\ Vetted /\ NoneOverMount /\ Published /\ SeenIsVetted
    BY DEF Init, Chosen, Staged, Vetted, NoneOverMount, Published, SeenIsVetted
<1> QED
    BY <1>1, <1>2, <1>3 DEF Inductive

\* Staging overwrites no file that Caddy reads.
LEMMA StageStep ==
    ASSUME Inductive, Stage
    PROVE  Inductive'
<1> USE DEF Inductive, Stage
<1>1. /\ Seen(Caddyfile)' = Seen(Caddyfile) /\ Plain' = Plain /\ Mounted'
      /\ \A d \in Devices : Matches(d)' = Matches(d)
    BY SameMounts
<1>2. StagingFile' = StagingFile /\ Fitting /\ Fitting'
    BY SameVolume DEF Chosen
<1>3. /\ StagingFile # Seen(Caddyfile) /\ StagingFile[1] \in Places
      /\ vol \in Devices => StagingFile[2] # <<>>
    BY <1>2, StagingApart, FilesInPlaces
<1>4. /\ DOMAIN files' = DOMAIN files \cup {StagingFile}
      /\ files'[StagingFile] = content
      /\ \A f \in DOMAIN files : f # StagingFile => files'[f] = files[f]
    BY DEF Holding
<1>5. TypeOK'
    BY <1>3, <1>4 DEF TypeOK
<1>6. Chosen' /\ Staged'
    BY <1>2, <1>4 DEF Chosen, Staged
<1>7. Vetted' /\ Published'
    BY DEF Vetted, Published
<1>8. NoneOverMount'
    <2>1. (\E d \in Devices : Matches(d)) => vol \in Devices
        BY <1>2 DEF Fitting
    <2> QED
        BY <1>1, <1>3, <1>4, <2>1 DEF NoneOverMount
<1>9. SeenIsVetted'
    BY <1>1, <1>3, <1>4 DEF SeenIsVetted
<1> QED
    BY <1>1, <1>5, <1>6, <1>7, <1>8, <1>9

\* What a rename puts where Caddy reads is what was staged and, while the
\* instance runs, vetted; elsewhere it disturbs nothing Caddy reads.
LEMMA RenameStep ==
    ASSUME Inductive, Rename
    PROVE  Inductive'
<1> USE DEF Inductive, Rename
<1>1. /\ Seen(Caddyfile)' = Seen(Caddyfile) /\ Plain' = Plain /\ Mounted'
      /\ \A d \in Devices : Matches(d)' = Matches(d)
    BY SameMounts
<1>2. Fitting /\ Fitting'
    BY SameVolume DEF Chosen
<1>3. StagingFile # TargetFile /\ TargetFile[2] # <<>> /\ TargetFile[1] \in Places
    BY <1>2, StagingApart, FilesInPlaces
<1>4. StagingFile \in DOMAIN files /\ files[StagingFile] = content
    BY DEF Staged
<1>5. /\ DOMAIN files' = (DOMAIN files \cup {TargetFile}) \ {StagingFile}
      /\ files'[TargetFile] = content
      /\ \A f \in DOMAIN files' : f # TargetFile => files'[f] = files[f] /\ f \in DOMAIN files
    BY <1>3, <1>4
<1>6. TypeOK'
    <2>1. /\ pc' \in {"idle", "resolve", "stage", "vet", "rename", "reload", "done"}
          /\ pc' \in {"vet", "reload"} => running'
          /\ {running, cold}' \subseteq BOOLEAN
        BY DEF TypeOK
    <2>2. \A f \in DOMAIN files' : f[1] \in Places /\ files'[f] \in Contents \cup {Old}
        BY <1>3, <1>5 DEF TypeOK
    <2> QED
        BY <2>1, <2>2 DEF TypeOK
<1>7. Chosen' /\ Staged' /\ Vetted'
    BY <1>2 DEF Chosen, Staged, Vetted
<1>8. NoneOverMount'
    BY <1>1, <1>3, <1>5 DEF NoneOverMount
<1>9. Published'
    BY <1>1, <1>2, <1>5, PlainTarget DEF Published
<1>10. SeenIsVetted'
    <2>1. CASE TargetFile = Seen(Caddyfile)
        <3>1. running => StagingFile = Seen(Beside(Caddyfile))
            BY <1>2, <1>3, <2>1, StagedIsVetted DEF Vetted
        <3>2. running => content \in Valid
            BY <1>4, <3>1 DEF Vetted
        <3> QED
            BY <1>1, <1>5, <2>1, <3>2 DEF SeenIsVetted
    <2>2. CASE TargetFile # Seen(Caddyfile)
        BY <1>1, <1>5, <2>2 DEF SeenIsVetted
    <2> QED
        BY <2>1, <2>2
<1> QED
    BY <1>1, <1>6, <1>7, <1>8, <1>9, <1>10

LEMMA InductiveStep ==
    ASSUME Inductive, [Next]_vars
    PROVE  Inductive'
<1>1. ASSUME UNCHANGED <<devices, files, cold>>
      PROVE  /\ Mounted' /\ NoneOverMount' /\ SeenIsVetted'
             /\ Seen(Caddyfile)' = Seen(Caddyfile) /\ Plain' = Plain
             /\ \A d \in Devices : Matches(d)' = Matches(d)
             /\ Seen(Beside(Caddyfile))' = Seen(Beside(Caddyfile))
    <2>1. /\ Seen(Caddyfile)' = Seen(Caddyfile) /\ Mounted' /\ Plain' = Plain
          /\ \A d \in Devices : Matches(d)' = Matches(d)
          /\ Seen(Beside(Caddyfile))' = Seen(Beside(Caddyfile))
        BY <1>1, SameMounts DEF Inductive
    <2>2. NoneOverMount' /\ SeenIsVetted'
        BY <1>1, <2>1 DEF Inductive, NoneOverMount, SeenIsVetted
    <2> QED
        BY <2>1, <2>2
<1>2. ASSUME NEW c \in Contents, Deploy(c)
      PROVE  Inductive'
    <2>1. TypeOK'
        BY <1>2 DEF Deploy, Inductive, TypeOK
    <2>2. Chosen' /\ Staged' /\ Vetted' /\ Published'
        BY <1>2 DEF Deploy, Chosen, Staged, Vetted, Published
    <2> QED
        BY <1>1, <1>2, <2>1, <2>2 DEF Deploy, Inductive
<1>3. CASE Resolve
    <2>1. TypeOK'
        BY <1>3 DEF Resolve, Inductive, TypeOK, Places
    <2>2. Chosen'
        BY <1>1, <1>3 DEF Resolve, Chosen, Fitting
    <2>3. Staged' /\ Vetted' /\ Published'
        BY <1>3 DEF Resolve, Staged, Vetted, Published
    <2> QED
        BY <1>1, <1>3, <2>1, <2>2, <2>3 DEF Resolve, Inductive
<1>4. CASE Vet
    <2>1. TypeOK'
        BY <1>4 DEF Vet, Inductive, TypeOK
    <2>2. StagingFile' = StagingFile /\ Fitting' = Fitting
        BY <1>4, SameVolume DEF Vet
    <2>3. Chosen' /\ Staged'
        BY <1>4, <2>2 DEF Vet, Inductive, Chosen, Staged
    <2>4. Vetted' /\ Published'
        BY <1>1, <1>4 DEF Vet, Inductive, Vetted, Published
    <2> QED
        BY <1>1, <1>4, <2>1, <2>3, <2>4 DEF Vet, Inductive
<1>5. CASE Reload \/ Fail \/ Return
    <2>1. TypeOK'
        BY <1>5 DEF Reload, Fail, Return, Inductive, TypeOK
    <2>2. Fitting' = Fitting
        BY <1>5, SameVolume DEF Reload, Fail, Return
    <2>3. Chosen' /\ Staged' /\ Vetted'
        BY <1>5, <2>2 DEF Reload, Fail, Return, Inductive, Chosen, Staged, Vetted
    <2>4. Published'
        BY <1>1, <1>5 DEF Reload, Fail, Return, Inductive, Published
    <2> QED
        BY <1>1, <1>5, <2>1, <2>3, <2>4 DEF Reload, Fail, Return, Inductive
<1>6. CASE UNCHANGED vars
    <2>1. StagingFile' = StagingFile /\ Fitting' = Fitting
        BY <1>6, SameVolume DEF vars
    <2>2. TypeOK' /\ Chosen' /\ Staged'
        BY <1>6, <2>1 DEF vars, Inductive, TypeOK, Chosen, Staged
    <2>3. Vetted' /\ Published'
        BY <1>1, <1>6 DEF vars, Inductive, Vetted, Published
    <2> QED
        BY <1>1, <1>6, <2>2, <2>3 DEF vars, Inductive
<1> QED
    BY <1>2, <1>3, <1>4, <1>5, <1>6, StageStep, RenameStep DEF Next

\* What the theorems below rest on.
LEMMA Invariance == Spec => []Inductive
<1>1. Inductive /\ [Next]_vars => Inductive'
    BY InductiveStep
<1> QED
    BY <1>1, InductiveInit, PTL DEF Spec

\* Every attempt works on a device or in the instance, whatever volume the one
\* before has worked on.
THEOREM TypeCorrect == Spec => []TypeOK
<1>1. Inductive => TypeOK
    BY DEF Inductive
<1> QED
    BY <1>1, Invariance, PTL

\* Without nested mounts a deployment that succeeds has put its file where Caddy
\* reads it, at whatever depth the volume is mounted.
THEOREM ReachCorrect == Spec => []SuccessReaches
<1>1. Inductive => SuccessReaches
    BY DEF Inductive, Published, SuccessReaches
<1> QED
    BY <1>1, Invariance, PTL

\* However the mounts are nested, what Caddy reads has been vetted if the instance
\* ran when it was put there.
THEOREM VettedCorrect == Spec => []SeenIsVetted
<1>1. Inductive => SeenIsVetted
    BY DEF Inductive
<1> QED
    BY <1>1, Invariance, PTL
=============================================================================
