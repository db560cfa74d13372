---------------------------- MODULE ControlPlane ----------------------------
(***************************************************************************)
(* The local Headscale that `up` provisions and `down` removes             *)
(* (headscale/provision.py): the certificates on disk, the container that  *)
(* loads them at its start, the managed block of config.toml and the       *)
(* marker of ownership.                                                    *)
(*                                                                         *)
(* A CA, a key, an issue of a certificate is a number, 0 when it is not    *)
(* there; a certificate names the key it belongs to, the CA that signed it *)
(* and the address it is for. Files are renamed into place one by one, and *)
(* an `up` can be cut off, or fail, between any two steps.                 *)
(***************************************************************************)
EXTENDS Naturals, FiniteSets, Sequences

CONSTANTS
  HostIps,       \* the addresses the host can have
  PlaneFaults,   \* how often an `up` or a teardown is cut off at most
  PlaneEvents    \* how often files are lost, the CA ages, the host changes

NoIp == "none"
NoCert == [key |-> 0, by |-> 0, ip |-> NoIp]

ASSUME PlaneAssumption ==
  HostIps # {} /\ NoIp \notin HostIps /\ PlaneFaults \in Nat /\ PlaneEvents \in Nat

VARIABLES
  caKey,      \* ca/ca.key
  legacyKey,  \* certs/ca.key, where an older release kept it
  ca,         \* certs/ca.pem, as the number of its key
  serverKey,  \* the server's key
  cert,       \* the server's certificate
  issued,     \* the numbers given out
  ageing,     \* the CAs about to expire
  hostIp,     \* default_host_ip
  plane,      \* the container: absent, or the address it publishes on and the
              \* certificate it loaded
  block,      \* the address in the managed block of config.toml
  owned,      \* the marker of ownership
  upAt,       \* where the command in progress stands
  upIp,       \* the address it read
  renewed,    \* what gen_certs returned
  toRename,     \* the files still to be renamed into place
  stale,      \* history: an `up` was cut off after it had replaced the certificate
              \* and before it recreated the container
  planeFaults, planeEvents

files == <<caKey, legacyKey, ca, serverKey, cert, issued, ageing>>
command == <<upAt, upIp, renewed, toRename>>
planeVars == <<files, hostIp, plane, block, owned, command, stale, planeFaults, planeEvents>>

NoPlane == [ip |-> NoIp, cert |-> NoCert]

PlaneInit ==
  /\ caKey = 0 /\ legacyKey = 0 /\ ca = 0 /\ serverKey = 0 /\ cert = NoCert
  /\ issued = 0 /\ ageing = {} /\ hostIp \in HostIps
  /\ plane = NoPlane /\ block = NoIp /\ owned = FALSE
  /\ upAt = "idle" /\ upIp = NoIp /\ renewed = FALSE /\ toRename = << >>
  /\ stale = FALSE /\ planeFaults = PlaneFaults /\ planeEvents = PlaneEvents

-----------------------------------------------------------------------------
(* ensure_up: the checks and gen_certs.                                    *)

\* The address is read once, the artifacts are rendered for it, and the image
\* checks run before the certificates are touched.
UpBegins ==
  /\ upAt = "idle"
  /\ upAt' = "checked" /\ upIp' = hostIp /\ renewed' = FALSE
  /\ UNCHANGED <<files, hostIp, plane, block, owned, toRename, stale, planeFaults, planeEvents>>

\* _ca_reusable: a pair, and not about to expire.
CaReusable == ca # 0 /\ caKey = ca /\ ca \notin ageing

BugCertCurrent(ip) == serverKey # 0 /\ cert.key = serverKey /\ cert.ip = ip

\* _server_cert_current: it pairs with its key, chains to the CA, has the address.
CertCurrent(ip) == serverKey # 0 /\ cert.key = serverKey /\ cert.by = ca /\ cert.ip = ip

\* _migrate_legacy_ca_key: of two copies, the one that pairs with the CA is kept.
MigrateCaKey ==
  /\ upAt = "checked" /\ legacyKey # 0
  /\ caKey' = IF caKey # 0 /\ ~(legacyKey = ca /\ caKey # ca) THEN caKey ELSE legacyKey
  /\ legacyKey' = 0
  /\ UNCHANGED <<ca, serverKey, cert, issued, ageing, hostIp, plane, block, owned, command,
                 stale, planeFaults, planeEvents>>

\* What a generation stages, in the order it is renamed: a new CA, signed for
\* by itself, only where the one there is cannot be used.
Generation(ip) ==
  LET newCa == issued + 1
      newKey == issued + 2
      by == IF CaReusable THEN ca ELSE newCa
  IN  (IF CaReusable THEN << >> ELSE <<[file |-> "caKey", is |-> newCa], [file |-> "ca", is |-> newCa]>>)
      \o <<[file |-> "serverKey", is |-> newKey],
           [file |-> "cert", is |-> [key |-> newKey, by |-> by, ip |-> ip]]>>

GenCerts ==
  /\ upAt = "checked" /\ legacyKey = 0
  /\ IF CaReusable /\ CertCurrent(upIp)
     THEN upAt' = "certified" /\ UNCHANGED <<toRename, issued>>
     ELSE /\ upAt' = "renaming" /\ toRename' = Generation(upIp) /\ issued' = issued + 2
  /\ UNCHANGED <<caKey, legacyKey, ca, serverKey, cert, ageing, hostIp, plane, block, owned,
                 upIp, renewed, stale, planeFaults, planeEvents>>

\* os.replace, one file at a time.
Rename ==
  /\ upAt = "renaming" /\ toRename # << >>
  /\ LET next == Head(toRename) IN
       /\ caKey' = IF next.file = "caKey" THEN next.is ELSE caKey
       /\ ca' = IF next.file = "ca" THEN next.is ELSE ca
       /\ serverKey' = IF next.file = "serverKey" THEN next.is ELSE serverKey
       /\ cert' = IF next.file = "cert" THEN next.is ELSE cert
  /\ toRename' = Tail(toRename)
  /\ UNCHANGED <<legacyKey, issued, ageing, hostIp, plane, block, owned, upAt, upIp, renewed,
                 stale, planeFaults, planeEvents>>

Renamed ==
  /\ upAt = "renaming" /\ toRename = << >>
  /\ upAt' = "certified" /\ renewed' = TRUE
  /\ UNCHANGED <<files, hostIp, plane, block, owned, upIp, toRename, stale, planeFaults, planeEvents>>

-----------------------------------------------------------------------------
(* ensure_up: the container, the block and the marker.                     *)

\* What a container that starts loads: nothing from a certificate that does
\* not pair with its key.
Loads == IF cert.key = serverKey THEN cert ELSE NoCert

\* compose up: created where there is none, recreated where its configuration
\* changed or it is told to, left alone otherwise.
ComposeUp ==
  /\ upAt = "certified" /\ upAt' = "started"
  /\ plane' = IF renewed \/ plane.ip # upIp THEN [ip |-> upIp, cert |-> Loads] ELSE plane
  /\ UNCHANGED <<files, hostIp, block, owned, upIp, renewed, toRename, stale, planeFaults, planeEvents>>

\* Healthy, its user and key made and the router up: the block is written.
WriteBlock ==
  /\ upAt = "started" /\ plane # NoPlane /\ upAt' = "written"
  /\ block' = upIp
  /\ UNCHANGED <<files, hostIp, plane, owned, upIp, renewed, toRename, stale, planeFaults, planeEvents>>

MarkOwned ==
  /\ upAt = "written" /\ upAt' = "up"
  /\ owned' = TRUE
  /\ UNCHANGED <<files, hostIp, plane, block, upIp, renewed, toRename, stale, planeFaults, planeEvents>>

\* The command is over; the next one can begin.
UpEnds ==
  /\ upAt = "up" /\ upAt' = "idle" /\ upIp' = NoIp /\ renewed' = FALSE
  /\ UNCHANGED <<files, hostIp, plane, block, owned, toRename, stale, planeFaults, planeEvents>>

\* A step fails, or the operator interrupts it: nothing is undone, but the
\* staging directory goes.
UpCut ==
  /\ upAt \in {"checked", "renaming", "certified", "started", "written"}
  /\ planeFaults > 0 /\ planeFaults' = planeFaults - 1
  /\ upAt' = "idle" /\ upIp' = NoIp /\ renewed' = FALSE /\ toRename' = << >>
  /\ stale' = (stale \/ (upAt = "renaming" /\ toRename = << >>) \/ (upAt = "certified" /\ renewed))
  /\ UNCHANGED <<files, hostIp, plane, block, owned, planeEvents>>

-----------------------------------------------------------------------------
(* teardown, only of a plane we own: the containers, the block, the marker. *)

DownPlane ==
  /\ upAt = "idle" /\ owned /\ upAt' = "removed"
  /\ plane' = NoPlane /\ stale' = FALSE
  /\ UNCHANGED <<files, hostIp, block, owned, upIp, renewed, toRename, planeFaults, planeEvents>>

StripBlock ==
  /\ upAt = "removed" /\ upAt' = "stripped"
  /\ block' = NoIp
  /\ UNCHANGED <<files, hostIp, plane, owned, upIp, renewed, toRename, stale, planeFaults, planeEvents>>

ClearOwned ==
  /\ upAt = "stripped" /\ upAt' = "idle"
  /\ owned' = FALSE
  /\ UNCHANGED <<files, hostIp, plane, block, upIp, renewed, toRename, stale, planeFaults, planeEvents>>

DownCut ==
  /\ upAt \in {"removed", "stripped"} /\ upAt' = "idle"
  /\ planeFaults > 0 /\ planeFaults' = planeFaults - 1
  /\ UNCHANGED <<files, hostIp, plane, block, owned, upIp, renewed, toRename, stale, planeEvents>>

-----------------------------------------------------------------------------
(* What happens to the host between two commands.                          *)

Happens == upAt = "idle" /\ planeEvents > 0 /\ planeEvents' = planeEvents - 1

HostMoves ==
  /\ Happens /\ \E ip \in HostIps \ {hostIp} : hostIp' = ip
  /\ UNCHANGED <<files, plane, block, owned, command, stale, planeFaults>>

CaAges ==
  /\ Happens /\ ca # 0 /\ ageing' = ageing \cup {ca}
  /\ UNCHANGED <<caKey, legacyKey, ca, serverKey, cert, issued, hostIp, plane, block, owned,
                 command, stale, planeFaults>>

\* The operator deletes the CA, as the error of _ca_reusable says.
CaLost ==
  /\ Happens /\ caKey' = 0 /\ ca' = 0
  /\ UNCHANGED <<legacyKey, serverKey, cert, issued, ageing, hostIp, plane, block, owned,
                 command, stale, planeFaults>>

\* An older release ran in between: it found no key in certs/ and minted a CA.
OlderRelease ==
  /\ Happens /\ ca # 0
  /\ issued' = issued + 2 /\ ca' = issued + 1 /\ legacyKey' = issued + 1
  /\ serverKey' = issued + 2
  /\ cert' = [key |-> issued + 2, by |-> issued + 1, ip |-> hostIp]
  /\ plane' = [ip |-> hostIp, cert |-> [key |-> issued + 2, by |-> issued + 1, ip |-> hostIp]]
  /\ stale' = FALSE
  /\ UNCHANGED <<caKey, ageing, hostIp, block, owned, command, planeFaults>>

\* The host reboots: what has `restart: unless-stopped` starts anew; a prune
\* has removed it for good.
HostReboots ==
  /\ Happens /\ plane # NoPlane
  /\ plane' = [plane EXCEPT !.cert = Loads]
  /\ stale' = FALSE
  /\ UNCHANGED <<files, hostIp, block, owned, command, planeFaults>>

Pruned ==
  /\ Happens /\ plane' = NoPlane /\ stale' = FALSE
  /\ UNCHANGED <<files, hostIp, block, owned, command, planeFaults>>

ControlPlaneNext ==
  \/ UpBegins \/ MigrateCaKey \/ GenCerts \/ Rename \/ Renamed
  \/ ComposeUp \/ WriteBlock \/ MarkOwned \/ UpEnds \/ UpCut
  \/ DownPlane \/ StripBlock \/ ClearOwned \/ DownCut
  \/ HostMoves \/ CaAges \/ CaLost \/ OlderRelease \/ HostReboots \/ Pruned

PlaneSpec == PlaneInit /\ [][ControlPlaneNext]_planeVars

-----------------------------------------------------------------------------
(* Properties.                                                             *)

\* An `up` that succeeds leaves a plane everything can trust, whatever earlier
\* commands were cut off between two renames: the certificate pairs with its
\* key, chains to the CA, whose key is there, and is for the address the block
\* and the container have; and the container has loaded it, unless an earlier
\* `up` was cut off after it had replaced it.
UpIsTrusted ==
  upAt = "up" =>
    /\ cert = [key |-> serverKey, by |-> ca, ip |-> upIp] /\ caKey = ca /\ legacyKey = 0
    /\ block = upIp /\ plane.ip = upIp
    /\ stale \/ plane.cert = cert

=============================================================================
