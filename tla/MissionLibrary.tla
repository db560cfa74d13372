--------------------------- MODULE MissionLibrary ---------------------------
(***************************************************************************)
(* One mission of the library on this host: its install record, the local  *)
(* images its releases name, the pull jobs and everything that writes them *)
(* (rest/mission_pull.py, pull_jobs.py, mission_images.py, ingest.py,      *)
(* routers/missions.py, missions/ingest.py, missions/runtime.py).          *)
(*                                                                         *)
(* A release is a tag; what the registry serves under it, and what Docker  *)
(* holds, is a number, which is also the digest the catalog gives of it. A *)
(* pull asks the catalog for the digest, then for the tag, and then the    *)
(* registry for the image; it moves the local tag before anything else of  *)
(* an install is done, and several writers run at the same time: a job's   *)
(* worker, a synchronous pull or update, the pruning of images.            *)
(***************************************************************************)
EXTENDS Naturals, FiniteSets

CONSTANTS
  Releases,       \* the tags the catalog can name
  LibraryFaults   \* the scenarios: how often each request and fault occurs

LibraryKinds == {"job", "sync", "ingest", "delete", "prune", "release", "repush",
                 "fault", "cancel", "kill", "run"}

LocalTag == "own"             \* the tag a local build gives its image

ASSUME LibraryAssumption ==
  /\ Releases # {} /\ Releases \cap {LocalTag, "none"} = {}
  /\ LibraryFaults \subseteq [LibraryKinds -> Nat]

Tags == Releases \cup {LocalTag}
Writers == {"job", "sync"}

NoRecord == [tag |-> "none", digest |-> 0, image |-> 0, rev |-> 0]

VARIABLES
  catalog,    \* the release the catalog names now
  registry,   \* what the registry serves under each release
  pushed,     \* how many images were ever published or built
  tag,        \* the local image each tag names, 0 for none
  store,      \* the images Docker holds
  record,     \* the install record: its tag, its index_digest, its revision; and,
              \* as history, the image that was pulled or built for it
  aside,      \* the record a swap in progress has renamed to .bak
  staged,     \* the writer whose record waits in .tmp, or "none"
  job,        \* the pull job: none, pulling, or how it ended
  cancel,     \* its cancel_requested flag
  unswept,    \* the boot of the server has yet to end the jobs that the last one left
  writer,     \* where each pull stands, and what it has read
  pruner,     \* where the pruning stands, and what it has read
  liveTags,   \* the images of the runs that go on
  excused,    \* history: the server was killed in a pull, or a repair failed
              \* after it had removed the image
  overtaken,  \* history: two pulls ran at once, or a pruning could not see
              \* what changed under it
  libraryFaults

shelf == <<catalog, registry, pushed, unswept>>
docker == <<tag, store>>
libraryVars == <<catalog, registry, pushed, docker, record, aside, staged, job, cancel, unswept, writer,
                 pruner, liveTags, excused, overtaken, libraryFaults>>

Off == [at |-> "off", does |-> "none", had |-> 0, digest |-> 0, to |-> "none", pinned |-> "none",
        previous |-> 0, rev |-> 0, got |-> 0, removed |-> FALSE]
NoPrune == [at |-> "off", tags |-> {}, store |-> {}, installs |-> {}, scope |-> {}, doomed |-> {}]

LibraryInit ==
  /\ catalog \in Releases
  /\ registry = [r \in Releases |-> IF r = catalog THEN 1 ELSE 0] /\ pushed = 1
  /\ tag = [t \in Tags |-> 0] /\ store = {}
  /\ record = NoRecord /\ aside = NoRecord /\ staged = "none"
  /\ job = "none" /\ cancel = FALSE /\ unswept = FALSE
  /\ writer = [w \in Writers |-> Off] /\ pruner = NoPrune
  /\ liveTags = {} /\ excused = FALSE /\ overtaken = FALSE
  /\ libraryFaults \in LibraryFaults

Counts(kind) ==
  libraryFaults[kind] > 0 /\ libraryFaults' = [libraryFaults EXCEPT ![kind] = @ - 1]

Busy == \E w \in Writers : writer[w].at # "off"
Installed == record # NoRecord

\* A tag is pointed at an image; nothing is deleted by that.
Point(t, image) ==
  /\ tag' = [tag EXCEPT ![t] = image]
  /\ store' = store \cup {image}

\* remove_image, never forced: the tag goes, and its image with its last tag.
Untag(t) ==
  /\ tag' = [tag EXCEPT ![t] = 0]
  /\ store' = IF \E u \in Tags \ {t} : tag[u] = tag[t] THEN store ELSE store \ {tag[t]}

-----------------------------------------------------------------------------
(* A pull, an update or a repair.                                          *)

Become(w, at) == writer' = [writer EXCEPT ![w].at = at]

\* How a pull ends: the worker of a job writes it to the job.
Ends(w, how) ==
  /\ writer' = [writer EXCEPT ![w] = Off]
  /\ job' = IF w = "job" THEN how ELSE job

\* start: a job still pulling is joined. pull and update: refused while one is.
BeginPull(w, does) ==
  /\ writer[w].at = "off" /\ job # "pulling"
  /\ IF w = "job" THEN does \in {"pull", "repair"} /\ Counts("job")
                  ELSE does \in {"pull", "update"} /\ Counts("sync")
  /\ job' = IF w = "job" THEN "pulling" ELSE job
  /\ cancel' = IF w = "job" THEN FALSE ELSE cancel
  /\ writer' = [writer EXCEPT ![w] = [Off EXCEPT !.at = "begun", !.does = does]]
  /\ overtaken' = (overtaken \/ Busy)
  /\ UNCHANGED <<shelf, docker, record, aside, staged, pruner, liveTags, excused>>

\* What is installed decides: another origin collides, an install that is there
\* is returned, or repaired, or compared with what the catalog says.
Looks(w) ==
  LET does == writer[w].does
      library == Installed /\ record.tag # LocalTag
  IN
  /\ writer[w].at = "begun"
  /\ \/ /\ IF Installed THEN record.tag = LocalTag \/ does = "pull" ELSE does = "update"
        /\ Ends(w, IF library THEN "installed" ELSE "error")
     \/ library /\ does = "repair" /\ Become(w, "repair") /\ UNCHANGED job
     \/ /\ library /\ does = "update" /\ UNCHANGED job
        /\ writer' = [writer EXCEPT ![w].at = "detail", ![w].had = record.digest]
     \/ ~Installed /\ does # "update" /\ Become(w, "acquire") /\ UNCHANGED job
  /\ UNCHANGED <<shelf, docker, record, aside, staged, cancel, pruner, liveTags,
                 excused, overtaken, libraryFaults>>

\* _remove_for_repair: refused when another tag names the image, the registry
\* does not answer or a container uses it; otherwise the local image goes first.
Repair(w) ==
  /\ writer[w].at = "repair"
  /\ \/ /\ \E t \in Tags \ {record.tag} : Installed /\ tag[t] = tag[record.tag] /\ tag[t] # 0
        /\ Ends(w, "error") /\ UNCHANGED <<docker, libraryFaults>>
     \/ Counts("fault") /\ Ends(w, "error") /\ UNCHANGED docker
     \/ /\ IF Installed /\ tag[record.tag] # 0
           THEN /\ record.tag \notin liveTags
                /\ \A t \in Tags \ {record.tag} : tag[t] # tag[record.tag]
                /\ Untag(record.tag)
                /\ writer' = [writer EXCEPT ![w].at = "acquire", ![w].removed = TRUE]
           ELSE Become(w, "acquire") /\ UNCHANGED docker
        /\ UNCHANGED <<job, libraryFaults>>
     \/ Installed /\ record.tag \in liveTags /\ Ends(w, "error") /\ UNCHANGED <<docker, libraryFaults>>
  /\ UNCHANGED <<shelf, record, aside, staged, cancel, pruner, liveTags, excused, overtaken>>

\* _acquire_and_install notes the tag the record pins and the image it names. An
\* update has asked the catalog by then, a pull does so next.
Acquire(w) ==
  /\ writer[w].at = "acquire"
  /\ writer' = [writer EXCEPT ![w].at = IF writer[w].does = "update" THEN "pulling" ELSE "detail",
                  ![w].pinned = IF Installed THEN record.tag ELSE "none",
                  ![w].previous = IF Installed THEN tag[record.tag] ELSE 0,
                  ![w].rev = record.rev]
  /\ UNCHANGED <<shelf, docker, record, aside, staged, job, cancel, pruner, liveTags,
                 excused, overtaken, libraryFaults>>

\* fetch_detail: the identity of what the catalog lists now
FetchDetail(w) ==
  /\ writer[w].at = "detail"
  /\ writer' = [writer EXCEPT ![w].at = "image", ![w].digest = registry[catalog]]
  /\ UNCHANGED <<shelf, docker, record, aside, staged, job, cancel, pruner, liveTags,
                 excused, overtaken, libraryFaults>>

\* The install an update has found, and the detail it was given
FoundCurrent(w) == writer[w].had = writer[w].digest

\* _image_for: the tag to pull is of another request, later; an update of what is
\* current ends here
FetchImage(w) ==
  LET update == writer[w].does = "update" IN
  /\ writer[w].at = "image"
  /\ IF update /\ FoundCurrent(w)
     THEN Ends(w, "installed")
     ELSE /\ writer' = [writer EXCEPT ![w].at = IF update THEN "acquire" ELSE "pulling",
                                      ![w].to = catalog]
          /\ UNCHANGED job
  /\ UNCHANGED <<shelf, docker, record, aside, staged, cancel, pruner, liveTags,
                 excused, overtaken, libraryFaults>>

\* A tag or a record that changes once a pruning has read what it goes by, or a
\* tag that comes to an image it has listed as nobody's.
Unseen ==
  overtaken' = \/ overtaken \/ pruner.at \in {"decide", "remove"}
               \/ /\ pruner.at = "read"
                  /\ \E t \in Tags : tag'[t] # tag[t] /\ tag'[t] \in pruner.store

\* driver.pull: the tag moves the moment it lands.
Pull(w) ==
  /\ writer[w].at = "pulling"
  /\ Point(writer[w].to, registry[writer[w].to])
  /\ writer' = [writer EXCEPT ![w].at = "pulled", ![w].got = registry[writer[w].to]]
  /\ Unseen
  /\ UNCHANGED <<shelf, record, aside, staged, job, cancel, pruner, liveTags, excused,
                 libraryFaults>>

BugRestore(w) == UNCHANGED docker

\* The tag the pull moved is put back, while the record still describes the
\* image it named.
Restore(w) ==
  LET p == writer[w] IN
  IF p.previous # 0 /\ Installed /\ record.rev = p.rev /\ p.previous \in store
  THEN Point(p.pinned, p.previous) ELSE UNCHANGED docker

\* A failure, or a cancel at one of its checkpoints, before the install.
Stops(w) ==
  /\ writer[w].at \in {"begun", "acquire", "detail", "image", "pulling", "pulled"}
  /\ \/ Counts("fault") /\ Ends(w, "error")
     \/ /\ w = "job" /\ cancel /\ writer[w].at # "image"
        /\ Ends(w, "cancelled") /\ UNCHANGED libraryFaults
  /\ IF writer[w].at \in {"detail", "image", "pulling", "pulled"} THEN Restore(w) ELSE UNCHANGED docker
  /\ excused' = (excused \/ writer[w].removed) /\ Unseen
  /\ UNCHANGED <<shelf, record, aside, staged, cancel, pruner, liveTags>>

\* _atomic_install: a record of another origin stays; otherwise what a swap left
\* behind goes, the new record is staged and the old one is renamed aside.
SetAside(w) ==
  /\ writer[w].at = "pulled"
  /\ IF record.tag = LocalTag
     THEN Ends(w, "error") /\ UNCHANGED <<record, aside, staged>>
     ELSE /\ Become(w, "swapping") /\ UNCHANGED job
          /\ aside' = record /\ record' = NoRecord /\ staged' = w
  /\ UNCHANGED <<shelf, docker, cancel, pruner, liveTags, excused,
                 overtaken, libraryFaults>>

BugRecordedDigest(w) == registry[writer[w].to]

\* _install_identity: what the detail said
RecordedDigest(w) == writer[w].digest

\* What is staged now is renamed into place: it fails when another install has
\* cleared it.
Install(w) ==
  /\ writer[w].at = "swapping"
  /\ IF staged = "none"
     THEN Ends(w, "error") /\ Restore(w) /\ UNCHANGED <<record, aside>>
     ELSE /\ record' = [tag |-> writer[staged].to, digest |-> RecordedDigest(staged),
                       image |-> writer[staged].got, rev |-> aside.rev + 1]
          /\ aside' = NoRecord
          /\ Become(w, "done") /\ UNCHANGED <<job, docker>>
  /\ staged' = "none" /\ Unseen
  /\ UNCHANGED <<shelf, cancel, pruner, liveTags, excused, libraryFaults>>

Finish(w) ==
  /\ writer[w].at = "done" /\ Ends(w, "installed")
  /\ UNCHANGED <<shelf, docker, record, aside, staged, cancel, pruner, liveTags, excused,
                 overtaken, libraryFaults>>

\* request_cancel: only a job still pulling takes it.
RequestCancel ==
  /\ job = "pulling" /\ ~cancel /\ Counts("cancel") /\ cancel' = TRUE
  /\ UNCHANGED <<shelf, docker, record, aside, staged, job, writer, pruner, liveTags,
                 excused, overtaken>>

\* The server is killed and starts again.
Killed ==
  /\ Counts("kill")
  /\ excused' = (excused \/ Busy)
  /\ writer' = [w \in Writers |-> Off] /\ pruner' = NoPrune
  /\ unswept' = TRUE
  /\ UNCHANGED <<catalog, registry, pushed, docker, record, aside, staged, job, cancel, liveTags, overtaken>>

\* reconcile_pull_jobs, while the server serves: also a job that has begun since
JobSwept ==
  /\ unswept /\ unswept' = FALSE
  /\ job' = IF job = "pulling" THEN "error" ELSE job
  /\ UNCHANGED <<catalog, registry, pushed, docker, record, aside, staged, cancel, writer, pruner, liveTags,
                 excused, overtaken, libraryFaults>>

-----------------------------------------------------------------------------
(* The mission's own build, its uninstall, its runs, and the catalog.       *)

\* ingest: the build moves the tag of the mission's own image; the record follows
\* unless the id is installed from the library. (An id the library owns is only
\* let through when the catalog does not answer.)
Ingest ==
  /\ Counts("ingest")
  /\ pushed' = pushed + 1 /\ Point(LocalTag, pushed + 1)
  /\ record' = IF Installed /\ record.tag # LocalTag THEN record
               ELSE [tag |-> LocalTag, digest |-> 0, image |-> pushed + 1, rev |-> record.rev + 1]
  /\ Unseen
  /\ UNCHANGED <<unswept, catalog, registry, aside, staged, job, cancel, writer, pruner, liveTags, excused>>

\* delete: the record goes, whatever is in flight; with `purge` its image goes
\* next, as a pruning of that one image.
Delete ==
  /\ Installed /\ Counts("delete") /\ pruner.at = "off"
  /\ record' = NoRecord
  /\ \E purge \in BOOLEAN :
       pruner' = IF purge THEN [NoPrune EXCEPT !.at = "list", !.scope = {record.tag}] ELSE NoPrune
  /\ UNCHANGED <<shelf, docker, aside, staged, job, cancel, writer, liveTags, excused, overtaken>>

RunStarts ==
  /\ Installed /\ tag[record.tag] # 0 /\ Counts("run")
  /\ liveTags' = liveTags \cup {record.tag}
  /\ UNCHANGED <<shelf, docker, record, aside, staged, job, cancel, writer, pruner,
                 excused, overtaken>>

RunEnds ==
  /\ liveTags # {} /\ liveTags' = {}
  /\ UNCHANGED <<shelf, docker, record, aside, staged, job, cancel, writer, pruner,
                 excused, overtaken, libraryFaults>>

\* The creator publishes a new release, or pushes again under the same tag.
Publishes ==
  /\ pushed' = pushed + 1
  /\ \/ /\ Counts("release")
        /\ \E r \in {r \in Releases : registry[r] = 0} :
             catalog' = r /\ registry' = [registry EXCEPT ![r] = pushed + 1]
     \/ /\ Counts("repush") /\ registry' = [registry EXCEPT ![catalog] = pushed + 1]
        /\ UNCHANGED catalog
  /\ UNCHANGED <<unswept, docker, record, aside, staged, job, cancel, writer, pruner, liveTags, excused,
                 overtaken>>

-----------------------------------------------------------------------------
(* prune: the images are listed, then the records are read, then what else  *)
(* protects an image, then the rest is removed.                             *)

PruneLists ==
  /\ LET named == {<<t, tag[t]>> : t \in {u \in Tags : tag[u] # 0}} IN
     \/ /\ pruner.at = "off" /\ Counts("prune")
        /\ pruner' = [NoPrune EXCEPT !.at = "read", !.scope = Tags, !.store = store, !.tags = named]
     \/ /\ pruner.at = "list" /\ UNCHANGED libraryFaults
        /\ pruner' = [pruner EXCEPT !.at = "read", !.tags = named]
  /\ UNCHANGED <<shelf, docker, record, aside, staged, job, cancel, writer, liveTags,
                 excused, overtaken>>

\* _read_installs: the record, and during a swap the staged one and the one aside.
PruneReads ==
  /\ pruner.at = "read"
  /\ pruner' = [pruner EXCEPT !.at = "decide",
       !.installs = ({record.tag, aside.tag} \cup {writer[w].to : w \in Writers \cap {staged}}) \ {"none"}]
  /\ UNCHANGED <<shelf, docker, record, aside, staged, job, cancel, writer, liveTags,
                 excused, overtaken, libraryFaults>>

\* _protected: a job in flight, or a record that names no listed image, keeps every
\* image of the mission; otherwise a record and a live run keep the one they name.
Spared(listed) ==
  IF job = "pulling" \/ \E t \in pruner.installs : \A i \in listed : <<t, i>> \notin pruner.tags
  THEN listed
  ELSE {i \in listed : \E t \in pruner.installs \cup liveTags : <<t, i>> \in pruner.tags}

\* A candidate is removed by all its tags, or by its id when it had none.
PruneDecides ==
  /\ pruner.at = "decide"
  /\ LET named == {pair[2] : pair \in {q \in pruner.tags : q[1] \in pruner.scope}}
         gone == (named \cup pruner.store) \ Spared(named \cup pruner.store)
     IN pruner' = [pruner EXCEPT !.at = "remove",
          !.doomed = {pair[1] : pair \in {q \in pruner.tags : q[2] \in gone}},
          !.store = gone \ {pair[2] : pair \in pruner.tags}]
  /\ overtaken' = (overtaken \/ writer["sync"].at \in {"pulled", "swapping"}
                  \/ (job # "pulling" /\ writer["job"].at \in {"pulled", "swapping"}))
  /\ UNCHANGED <<shelf, docker, record, aside, staged, job, cancel, writer, liveTags,
                 excused, libraryFaults>>

\* An id is refused while several tags name it, and takes a single one with it.
PruneRemoves ==
  /\ pruner.at = "remove"
  /\ \/ \E t \in pruner.doomed :
          /\ IF tag[t] # 0 THEN Untag(t) ELSE UNCHANGED docker
          /\ pruner' = [pruner EXCEPT !.doomed = @ \ {t}]
     \/ /\ pruner.doomed = {}
        /\ LET gone == {i \in pruner.store : Cardinality({t \in Tags : tag[t] = i}) < 2} IN
           /\ store' = store \ gone
           /\ tag' = [t \in Tags |-> IF tag[t] \in gone THEN 0 ELSE tag[t]]
        /\ pruner' = NoPrune
  /\ UNCHANGED <<shelf, record, aside, staged, job, cancel, writer, liveTags, excused,
                 overtaken, libraryFaults>>

MissionLibraryNext ==
  \/ \E w \in Writers :
       \/ \E does \in {"pull", "update", "repair"} : BeginPull(w, does)
       \/ Looks(w) \/ Repair(w) \/ Acquire(w) \/ FetchDetail(w) \/ FetchImage(w)
       \/ Pull(w) \/ Stops(w)
       \/ SetAside(w) \/ Install(w) \/ Finish(w)
  \/ RequestCancel \/ Killed \/ JobSwept \/ Ingest \/ Delete \/ RunStarts \/ RunEnds \/ Publishes
  \/ PruneLists \/ PruneReads \/ PruneDecides \/ PruneRemoves

LibrarySpec == LibraryInit /\ [][MissionLibraryNext]_libraryVars

-----------------------------------------------------------------------------
(* Properties.                                                             *)

AtRest == ~Busy /\ record.tag \in Releases

Whole == AtRest => tag[record.tag] = record.image

\* While the catalog still gives the digest of the record, what is installed is what
\* the registry serves: an update that calls it current misses nothing.
CurrentIsServed ==
  record.tag \in Releases /\ record.digest = registry[catalog] => record.image = registry[catalog]

\* An installed mission's tag names the image that was pulled for it, whatever was
\* pushed, failed or was cancelled, and a pruning never takes it; unless the server
\* was killed in a pull, a repair failed once the image was gone, two pulls ran at
\* once, or a tag or the record changed beneath a pruning that goes by what it had
\* listed and read. And an install that passes for current is (_is_current).
InstallIsWhole == (excused \/ overtaken \/ Whole) /\ CurrentIsServed

\* "Values come from the catalog detail response - the identity of the CURRENT
\* artifact, i.e. the one just pulled" (mission_pull.py:627-628): the digest of a
\* record is that of the image its tag names, but for the same excuses.
IdentityIsThePulled == excused \/ overtaken \/ (AtRest => tag[record.tag] = record.digest)

\* Also violated: a pull that ends between a pruning's reading of the records and its
\* look at the jobs loses what it installed, and so may an image that was nobody's
\* when it was listed and got its tag back since (mission_images.py:14: "removable
\* unless something still needs it: an install record, a live run, a container, or a
\* pull in flight").
PruneSparesInstalls == excused \/ Whole
=============================================================================
