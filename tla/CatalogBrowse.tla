--------------------------- MODULE CatalogBrowse ---------------------------
(***************************************************************************)
(* What the app says of a mission of the library (catalog/http.py,         *)
(* catalog/source.py, rest/catalog_view.py): the catalog moves on, an      *)
(* install records what the catalog said of the release it pulled, in one  *)
(* request after another, and a page compares two of its own readings.     *)
(* MissionLibrary has the image and the record themselves.                 *)
(***************************************************************************)
EXTENDS Naturals

CONSTANTS
  EditionLimit,   \* bounds on the releases, and on the requests and events
  BrowseEvents

ASSUME BrowseAssumption == EditionLimit \in Nat \ {0} /\ BrowseEvents \in Nat

VARIABLES
  edition,    \* the release the catalog lists now; 0: it lists none
  editions,   \* how many there were
  contract,   \* it serves digests (a deployment before that serves none)
  static,     \* the mission has no image
  reachable,
  installed,  \* the record: where from, its ref and digest, and the release it holds
  getter,     \* a pull or an update, and what it has read
  told,       \* the answer of the last update that changed nothing
  page,       \* a page: what it has read of the catalog, and what it says
  browseEvents

browseVars == <<edition, editions, contract, static, reachable, installed, getter, told, page,
                browseEvents>>

NoInstall == [origin |-> "none", ref |-> 0, digest |-> 0, holds |-> 0]
NoGetter == [at |-> "none", does |-> "none", digest |-> 0, of |-> 0, ref |-> 0]
NoPage == [at |-> "none", listed |-> 0, ref |-> 0, digest |-> 0, update |-> "unknown", held |-> 0]

\* list_library, _to_item: what the catalog says of the release it lists
RefNow == IF static THEN 0 ELSE edition
DigestNow == IF contract THEN edition ELSE 0

SpendBrowse == browseEvents < BrowseEvents /\ browseEvents' = browseEvents + 1

(***************************************************************************)
(* pull_mission, update_mission: the detail, then the row that has the     *)
(* image, then its token, the image and the bundle, then the install       *)
(***************************************************************************)
\* done, or an answer that touched nothing: 404, 409, 502
GetterStops == getter' = NoGetter

\* _is_current, given the detail and the image: by digest, by ref where one has none
IsCurrent(digest, ref) ==
  IF installed.digest # 0 /\ digest # 0 THEN installed.digest = digest
  ELSE ref # 0 /\ installed.ref = ref

\* what is installed already is not pulled, the operator's own not even for a repair
Gets(does) ==
  /\ getter.at = "none" /\ SpendBrowse
  /\ IF does = "pull" THEN installed = NoInstall ELSE installed.origin = "library"
  /\ getter' = [NoGetter EXCEPT !.at = "detail", !.does = does]
  /\ UNCHANGED <<edition, editions, contract, static, reachable, installed, told, page>>

\* 404, a schema this client does not read, no connection: nothing was touched
FetchesDetail ==
  /\ getter.at = "detail"
  /\ IF reachable /\ edition # 0
     THEN getter' = [getter EXCEPT !.at = "image", !.digest = DigestNow, !.of = edition]
     ELSE GetterStops
  /\ UNCHANGED <<edition, editions, contract, static, reachable, installed, told, page, browseEvents>>

\* _image_for; an update ends here when what is installed is current
FetchesImage ==
  /\ getter.at = "image"
  /\ IF ~reachable \/ edition = 0
     THEN GetterStops /\ UNCHANGED told
     ELSE IF getter.does = "update" /\ IsCurrent(getter.digest, RefNow)
     THEN GetterStops /\ told' = [of |-> getter.of, holds |-> installed.holds]
     ELSE getter' = [getter EXCEPT !.at = "install", !.ref = RefNow] /\ UNCHANGED told
  /\ UNCHANGED <<edition, editions, contract, static, reachable, installed, page, browseEvents>>

BugIdentity == DigestNow

\* _install_identity: what the detail said
Identity == getter.digest

\* the token (403: not published), the image, the bundle, and the record at the end;
\* a static mission holds the bundle that is served by then
Installs ==
  /\ getter.at = "install"
  /\ \/ /\ reachable /\ (static => edition # 0)
        /\ installed' = [origin |-> "library", ref |-> getter.ref, digest |-> Identity,
                         holds |-> IF static THEN edition ELSE getter.ref]
     \/ UNCHANGED installed
  /\ GetterStops
  /\ UNCHANGED <<edition, editions, contract, static, reachable, told, page, browseEvents>>

(***************************************************************************)
(* list_catalog: the library, then the records                             *)
(***************************************************************************)
\* _update_available
UpdateOf(rec, digest, ref) ==
  IF rec.origin # "library" \/ page.listed = 0 THEN "unknown"
  ELSE IF rec.digest # 0 /\ digest # 0 THEN IF rec.digest # digest THEN "yes" ELSE "no"
  ELSE IF rec.ref # 0 /\ ref # 0 THEN IF rec.ref # ref THEN "yes" ELSE "no"
  ELSE "unknown"

\* a catalog that is switched off lists nothing; one that does not answer fails the page
Browses ==
  /\ page.at \in {"none", "shown", "failed"} /\ SpendBrowse
  /\ page' = IF reachable
             THEN [NoPage EXCEPT !.at = "listed", !.listed = edition, !.ref = RefNow, !.digest = DigestNow]
             ELSE [NoPage EXCEPT !.at = "failed"]
  /\ UNCHANGED <<edition, editions, contract, static, reachable, installed, getter, told>>

BrowsesOffline ==
  /\ page.at \in {"none", "shown", "failed"} /\ SpendBrowse
  /\ page' = [NoPage EXCEPT !.at = "listed"]
  /\ UNCHANGED <<edition, editions, contract, static, reachable, installed, getter, told>>

SaysOf ==
  /\ page.at = "listed"
  /\ page' = [page EXCEPT !.at = "shown", !.held = installed.holds,
                          !.update = UpdateOf(installed, page.digest, page.ref)]
  /\ UNCHANGED <<edition, editions, contract, static, reachable, installed, getter, told, browseEvents>>

(***************************************************************************)
(* The catalog, its connection, and what else becomes of the install       *)
(***************************************************************************)
CatalogMoves ==
  /\ SpendBrowse
  /\ \/ /\ editions < EditionLimit /\ editions' = editions + 1 /\ edition' = editions'
        /\ UNCHANGED <<contract, reachable, installed>>
     \/ /\ edition' = (IF edition = 0 THEN editions ELSE 0) /\ UNCHANGED <<editions, contract, reachable, installed>>
     \/ /\ contract' = ~contract /\ UNCHANGED <<edition, editions, reachable, installed>>
     \/ /\ reachable' = ~reachable /\ UNCHANGED <<edition, editions, contract, installed>>
     \/ /\ installed' = IF installed = NoInstall
                        THEN [NoInstall EXCEPT !.origin = "your_own", !.ref = EditionLimit + 1]
                        ELSE NoInstall
        /\ getter.at = "none"
        /\ UNCHANGED <<edition, editions, contract, reachable>>
  /\ UNCHANGED <<static, getter, told, page>>

BrowseInit ==
  /\ edition = 1 /\ editions = 1 /\ contract \in BOOLEAN /\ static \in BOOLEAN
  /\ reachable = TRUE /\ installed = NoInstall
  /\ getter = NoGetter /\ told = [of |-> 0, holds |-> 0] /\ page = NoPage /\ browseEvents = 0

BrowseNext ==
  \/ \E does \in {"pull", "update", "refresh"} : Gets(does)
  \/ FetchesDetail \/ FetchesImage \/ Installs
  \/ Browses \/ BrowsesOffline \/ SaysOf \/ CatalogMoves

BrowseSpec == BrowseInit /\ [][BrowseNext]_browseVars

(***************************************************************************)
(* Properties                                                              *)
(***************************************************************************)
\* A mission a page calls up to date, or an update leaves alone, holds the release
\* the catalog listed when it was read, or a newer one: whichever of the catalog's
\* answers an install was made of, and whatever it started or ceased to say of
\* itself meanwhile (_install_identity, _update_available, _is_current).
NoUpdateIsMissed ==
  /\ page.update = "no" => page.held >= page.listed
  /\ told.holds >= told.of

\* "The identity of the current artifact, i.e. the one just pulled": the image is of
\* a later request than the identity.
IdentityIsTheImage == installed.digest \in {0, installed.holds}

\* "Degrade, don't crash": what is installed is shown though the catalog is down.
BrowseDegrades == page.at # "failed"
=============================================================================
