--------------------------- MODULE SourceProperties ---------------------------
(***************************************************************************)
(* What an import of crawler manifests promises.                           *)
(***************************************************************************)
EXTENDS SourceImport, TLC

\* The evidence of one record is one chain: revisions without a gap, the last of them and
\* no other current, each saying something else than the one before, all of one task,
\* whatever imports of the batch ran side by side, died or were run again.
OneChain ==
    \A s \in sources :
        /\ s.current <=> \A x \in sources : x.batch = s.batch /\ x.key = s.key => x.revision <= s.revision
        /\ s.revision > 1 =>
              \E x \in sources : /\ x.batch = s.batch /\ x.key = s.key
                                 /\ x.revision = s.revision - 1
                                 /\ x.digest # s.digest /\ x.task = s.task
        /\ \A x \in sources : x.batch = s.batch /\ x.key = s.key /\ x.revision = s.revision => x = s

\* All that is current about a video is found at the task its identity is bound to.
EvidenceFollowsIdentity ==
    \A s \in sources : s.current /\ s.digest[3] # None => identities[s.digest[3]].task = s.task

\* A run that reads "completed" has left evidence of every record of its snapshot, at a
\* task that goes by the record's path, whatever happened to other runs and since.
CompletedMeansRecorded ==
    \A run \in DOMAIN runs : runs[run] = "completed" =>
        \A n \in run[2][1] .. run[2][2] :
            \E s \in sources : /\ s.batch = run[1] /\ s.key = manifest[n].key
                               /\ s.digest = Digest(manifest[n])
                               /\ manifest[n].path \in {s.task} \cup tasks[s.task].aliases

\* One video that a manifest lists under several paths, none of which another record
\* uses, is one task, also when several imports of several batches meet.
OwnPath(n) == \A m \in DOMAIN manifest : manifest[m].path = manifest[n].path
                                        => manifest[m].video = manifest[n].video
OneTaskPerVideo ==
    \A a, b \in DOMAIN manifest :
        /\ OwnPath(a) /\ OwnPath(b)
        /\ manifest[a].video # None /\ manifest[a].video = manifest[b].video
        /\ {manifest[a].path, manifest[b].path} \subseteq Tasks
        => manifest[a].path = manifest[b].path

\* The evidence is where it belongs.  The last part holds while preprocessing has not
\* taken up a file of its own: between the placing of a file and the transaction of its
\* record it makes a task that the import does not find by the video.
EvidenceInPlace ==
    /\ OneChain
    /\ EvidenceFollowsIdentity
    /\ faults.scans = 0 => OneTaskPerVideo

\* The same identity with another content is reported as a conflict: what a video's
\* evidence says of its sound is what its identity says.
SameVideoSameSound ==
    \A s \in sources : s.digest[3] # None => identities[s.digest[3]].sound = s.digest[2]

\* An import that is run again whenever it stopped comes to an end, with a report.
RunsFinish ==
    \A i \in Importer : runs[Run(i)] = "running" ~> runs[Run(i)] # "running"

Interchangeable ==
    Permutations(Importer) \cup Permutations(Batch) \cup Permutations(Video)
    \cup Permutations(Path) \cup Permutations(Key) \cup Permutations(Sound) \cup Permutations(Note)
=============================================================================
