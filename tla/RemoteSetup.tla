----------------------------- MODULE RemoteSetup -----------------------------
(***************************************************************************)
(* How remotes are configured, and how they learn where their controllers  *)
(* are: sync_remote_ips (Celery beat and the kiosk), the sync of the       *)
(* button page and the admin's sync action all scan the network for        *)
(* seconds and then store what they found, while controllers change their  *)
(* addresses and administrators rename remotes and save buttons.           *)
(*                                                                         *)
(* A transaction is one step.  SQLite refuses it when another one commits  *)
(* in between; that changes nothing, and is an action only for the beat.   *)
(***************************************************************************)
EXTENDS ButtonLayout, FiniteSets

CONSTANTS
  Remotes, Controllers, Addresses,
  NameOf,    \* DEVICE_NAME of a controller, trimmed and case folded
  Serves,    \* Serves[c]: the types of remotes its capabilities are enough for
  Names, Blank,   \* device_name as it may be stored
  Fold,      \* Fold[n]: the name n case folded
  None,      \* no address
  Jobs,      \* threads that scan
  Beat,      \* the worker's: it runs one scheduled task at a time
  Layouts,   \* what pages may submit, and templates hold
  Typed,     \* what administrators enter as controller_url
  MaxEdits, MaxFaults   \* bounds

Types == {"raw", "lg_tv", "ac"}

ASSUME SetupAssumption ==
  /\ DOMAIN NameOf = Controllers /\ DOMAIN Fold = Names /\ Blank \notin Names
  /\ None \notin Addresses /\ Typed \subseteq Addresses \cup {None}
  /\ Serves \in [Controllers -> SUBSET Types] /\ \A c \in Controllers : "raw" \in Serves[c]
  /\ Beat \in Jobs /\ \A l \in Layouts : IsLayout(l)
  /\ MaxEdits \in Nat /\ MaxFaults \in Nat

VARIABLES
  at,       \* at[c]: the address DHCP gave the controller, or None
  remote,   \* remote[r]: type, device_name, device_ip, controller_url
  layout,   \* layout[r]: its buttons
  shown,    \* shown[r]: the lists of buttons that pages were loaded with
  job,      \* job[j]: a scan and what it has found
  edits, faults   \* counts

rows == <<remote, layout, shown>>
vars == <<at, remote, layout, shown, job, edits, faults>>

Somewhere == Addresses \cup {None}
Absent == [type |-> "none", name |-> Blank, ip |-> None, url |-> None]
NoButtons == [b \in {} |-> b]
Quiet  == [kind |-> "idle"]

Init ==
  /\ at \in [Controllers -> Somewhere]
  /\ \A c, d \in Controllers : c # d /\ at[c] = at[d] => at[c] = None
  /\ remote = [r \in Remotes |-> Absent]
  /\ layout = [r \in Remotes |-> NoButtons] /\ shown = [r \in Remotes |-> {}]
  /\ job = [j \in Jobs |-> Quiet]
  /\ edits = 0 /\ faults = 0

(* Controllers that move, probes that are missed, transactions refused. *)
Fault == faults < MaxFaults /\ faults' = faults + 1
Edit  == edits < MaxEdits /\ edits' = edits + 1

(* A controller gets another address, perhaps one another controller had,  *)
(* or goes off, or comes back.                                             *)
Move(c) ==
  /\ Fault
  /\ \E a \in Somewhere \ {at[c]} :
       /\ a = None \/ \A d \in Controllers : at[d] # a
       /\ at' = [at EXCEPT ![c] = a]
  /\ UNCHANGED <<rows, job, edits>>

-----------------------------------------------------------------------------
(* Remotes *)

(* uniq_ac_remote_device_name, of the names as they are written *)
NameFree(r, type, name) ==
  type = "ac" /\ name # Blank =>
    \A s \in Remotes \ {r} : remote[s].type # "ac" \/ remote[s].name # name

(* A new primary key: no view still holds a remote that had it. *)
Fresh(r) == remote[r] = Absent /\ \A j \in Jobs : job[j].kind = "page" => r \notin job[j].of

(* remote_create_view *)
CreateRemote(r, type) ==
  /\ Fresh(r)
  /\ remote' = [remote EXCEPT ![r] = [Absent EXCEPT !.type = type]]
  /\ shown' = [shown EXCEPT ![r] = {{}}]
  /\ UNCHANGED <<at, layout, job, edits, faults>>

(* Primary keys of buttons are given once. *)
Born == UNION UNION {shown[r] : r \in Remotes}

(* add_from_template_view: a raw remote, with the buttons of the template. *)
AddFromTemplate(r, name, new) ==
  /\ Fresh(r)
  /\ Unique(new) /\ DOMAIN new \cap Born = {}
  /\ remote' = [remote EXCEPT ![r] = [Absent EXCEPT !.type = "raw", !.name = name]]
  /\ layout' = [layout EXCEPT ![r] = new]
  /\ shown' = [shown EXCEPT ![r] = {DOMAIN new}]
  /\ UNCHANGED <<at, job, edits, faults>>

(* RemoteControlAdminForm and save_model; device_ip is read-only there. *)
AdminSave(r, type, name, url) ==
  /\ Edit /\ remote[r] # Absent
  /\ type = "raw" \/ name # Blank
  /\ NameFree(r, type, name)
  /\ remote' = [remote EXCEPT ![r].type = type, ![r].name = name, ![r].url = url]
  /\ UNCHANGED <<at, layout, shown, job, faults>>

(* RemoteControlAdmin: its buttons are deleted with it, and its pages get 404. *)
DeleteRemote(r) ==
  /\ Edit /\ remote[r] # Absent
  /\ remote' = [remote EXCEPT ![r] = Absent]
  /\ layout' = [layout EXCEPT ![r] = NoButtons] /\ shown' = [shown EXCEPT ![r] = {}]
  /\ UNCHANGED <<at, job, faults>>

(* The slots somebody submits for b. *)
Submitted(b) == {l[b] : l \in {l \in Layouts : b \in DOMAIN l}}

(* RemoteButtonAdmin, and the list of buttons on the form of a remote: one   *)
(* button is added or changed, or one is deleted.                            *)
PutButton(r, b, slot) ==
  /\ Edit /\ remote[r] # Absent /\ b \in DOMAIN layout[r] \cup (Ids \ Born)
  /\ \A k \in DOMAIN layout[r] \ {b} : ~Clash(layout[r][k], slot)
  /\ layout' = [layout EXCEPT ![r] =
       [k \in DOMAIN layout[r] \cup {b} |-> IF k = b THEN slot ELSE layout[r][k]]]
  /\ shown' = [shown EXCEPT ![r] = @ \cup {DOMAIN layout[r] \cup {b}}]
  /\ UNCHANGED <<at, remote, job, faults>>

DeleteButton(r, b) ==
  /\ Edit /\ b \in DOMAIN layout[r]
  /\ layout' = [layout EXCEPT ![r] = [k \in DOMAIN layout[r] \ {b} |-> layout[r][k]]]
  /\ shown' = [shown EXCEPT ![r] = @ \cup {DOMAIN layout[r] \ {b}}]
  /\ UNCHANGED <<at, remote, job, faults>>

(* Mutant of Current: what the page does not show is not noticed. *)
CurrentEnough(list, r) == list \subseteq DOMAIN layout[r]

(* set(submitted_ids) == set(existing_by_id), or the list is stale. *)
Current(list, r) == list = DOMAIN layout[r]

(* button_config_save_view, from a page loaded with list: those buttons and  *)
(* new ones, with unique actions and positions, and the name.  Rows come in  *)
(* any order: where some order collides, the save may be refused, and then   *)
(* nothing changes.                                                          *)
Save(r, list, new, name) ==
  /\ Edit /\ Current(list, r) /\ DOMAIN new \cap Born \subseteq list /\ list \subseteq DOMAIN new
  /\ Unique(new)
  /\ DOMAIN new # {} \/ remote[r].type # "raw"
  /\ NameFree(r, remote[r].type, name)
  /\ \E shift \in Shifts(layout[r], new) :
       layout' = [layout EXCEPT ![r] = Rewritten(layout[r], new, shift)]
  /\ shown' = [shown EXCEPT ![r] = @ \cup {DOMAIN layout'[r]}]
  /\ remote' = [remote EXCEPT ![r].name = name]
  /\ UNCHANGED <<at, job, faults>>

-----------------------------------------------------------------------------
(* Scanning the network: discover_identity_devices *)

(* seen: the remote as the view of the button page read it *)
Scan(kind, of, seen) == [kind |-> kind, of |-> of, seen |-> seen, probed |-> {}, found |-> {}]

(* sync_remote_ips, of all remotes, every minute in the worker and from the   *)
(* kiosk; sync_device_ips, of those an administrator has selected             *)
BeginSync(j, of) ==
  /\ job[j] = Quiet
  /\ job' = [job EXCEPT ![j] = Scan("sync", of, Absent)]
  /\ UNCHANGED <<at, rows, edits, faults>>

(* button_config_sync_ip_view saves the name first. *)
BeginPageSync(j, r, name) ==
  /\ Edit /\ job[j] = Quiet /\ remote[r] # Absent
  /\ name # Blank /\ NameFree(r, remote[r].type, name)
  /\ remote' = [remote EXCEPT ![r].name = name]
  /\ job' = [job EXCEPT ![j] = Scan("page", {r}, [remote'[r] EXCEPT !.ip = None])]
  /\ UNCHANGED <<at, layout, shown, faults>>

(* DeviceDiscoveryError: no usable interface, or too large a network.  *)
DiscoveryFails(j) ==
  /\ Fault /\ job[j] # Quiet /\ job[j].probed = {}
  /\ job' = [job EXCEPT ![j] = Quiet]
  /\ UNCHANGED <<at, rows, edits>>

(* Mutant of Probe: the last batch of answers replaces those before. *)
ProbeForgets(j, a) ==
  /\ job[j] # Quiet /\ a \in Addresses \ job[j].probed
  /\ \E answers \in {{<<c, a>> : c \in {c \in Controllers : at[c] = a}}, {}} :
       /\ job' = [job EXCEPT ![j].probed = @ \cup {a}, ![j].found = answers]
       /\ IF answers = {} /\ \E c \in Controllers : at[c] = a THEN Fault ELSE UNCHANGED faults
  /\ UNCHANGED <<at, rows, edits>>

(* _probe_identity, of one address; 64 are probed at a time.  A controller   *)
(* that is too slow is not found.                                            *)
Probe(j, a) ==
  /\ job[j] # Quiet /\ a \in Addresses \ job[j].probed
  /\ \E answers \in {{<<c, a>> : c \in {c \in Controllers : at[c] = a}}, {}} :
       /\ job' = [job EXCEPT ![j].probed = @ \cup {a}, ![j].found = @ \cup answers]
       /\ IF answers = {} /\ \E c \in Controllers : at[c] = a THEN Fault ELSE UNCHANGED faults
  /\ UNCHANGED <<at, rows, edits>>

-----------------------------------------------------------------------------
(* Storing what was found *)

Scanned(j, kind) == job[j] # Quiet /\ job[j].kind = kind /\ job[j].probed = Addresses

(* Mutant of Matches: the name of the remote is not folded. *)
MatchesExact(j, name) == {f \in job[j].found : NameOf[f[1]] = name}

Matches(j, name) == {f \in job[j].found : NameOf[f[1]] = Fold[name]}

(* Exactly one device has the name, and its firmware suits the remote. *)
Suitable(type, matches) ==
  Cardinality(matches) = 1 /\ \A f \in matches : type \in Serves[f[1]]

Found(matches) == (CHOOSE f \in matches : TRUE)[2]

(* Where commands go: device_ip, and the controller_url of a television. *)
Addressed(rec, a) == [rec EXCEPT !.ip = a, !.url = IF rec.type = "lg_tv" THEN a ELSE @]

(* Mutant of Synced: an address that is known is not replaced. *)
SyncedOnce(rec, matches) ==
  IF rec.ip = None /\ Suitable(rec.type, matches) THEN Addressed(rec, Found(matches)) ELSE rec

(* A remote after a sync: an air conditioner loses the address of a device   *)
(* that cannot drive it, a television keeps it.                              *)
Synced(rec, matches) ==
  IF Suitable(rec.type, matches) THEN Addressed(rec, Found(matches))
  ELSE IF rec.type = "ac" /\ Cardinality(matches) = 1 THEN [rec EXCEPT !.ip = None]
  ELSE rec

Named(r) == remote[r] # Absent /\ remote[r].name # Blank

(* sync_remote_ips and sync_device_ips: by the names the rows have now *)
StoreAll(j) ==
  /\ Scanned(j, "sync")
  /\ remote' = [r \in Remotes |->
       IF r \in job[j].of /\ Named(r) THEN Synced(remote[r], Matches(j, remote[r].name)) ELSE remote[r]]
  /\ job' = [job EXCEPT ![j] = Quiet]
  /\ UNCHANGED <<at, layout, shown, edits, faults>>

(* button_config_sync_ip_view: by the name that was asked for, the type and   *)
(* the controller_url that were read before the scan; an error when the      *)
(* remote has been deleted                                                   *)
StoreOne(j) ==
  /\ Scanned(j, "page")
  /\ LET seen    == job[j].seen
         matches == Matches(j, seen.name)
         new     == Addressed(seen, Found(matches))
     IN  remote' = [r \in Remotes |->
           IF r \in job[j].of /\ remote[r] # Absent /\ Suitable(seen.type, matches)
             THEN [remote[r] EXCEPT !.ip = new.ip, !.url = new.url] ELSE remote[r]]
  /\ job' = [job EXCEPT ![j] = Quiet]
  /\ UNCHANGED <<at, layout, shown, edits, faults>>

(* SQLite refuses the transaction of the scheduled task. *)
StoreRefused(j) ==
  /\ Fault /\ Scanned(j, "sync")
  /\ job' = [job EXCEPT ![j] = Quiet]
  /\ UNCHANGED <<at, rows, edits>>

-----------------------------------------------------------------------------
Administrator ==
  \E r \in Remotes :
    \/ DeleteRemote(r) \/ \E type \in Types : CreateRemote(r, type)
    \/ \E name \in Names \cup {Blank} :
         \/ \E new \in Layouts : AddFromTemplate(r, name, new)
         \/ \E type \in Types, url \in Typed : AdminSave(r, type, name, url)
         \/ \E list \in shown[r], new \in Layouts : Save(r, list, new, name)
    \/ \E b \in Ids : DeleteButton(r, b) \/ \E slot \in Submitted(b) : PutButton(r, b, slot)

Syncs(j) ==
  \/ BeginSync(j, Remotes)
  \/ j # Beat /\ \/ \E of \in SUBSET Remotes \ {{}} : BeginSync(j, of)
                 \/ \E r \in Remotes, name \in Names : BeginPageSync(j, r, name)
  \/ DiscoveryFails(j) \/ (\E a \in Addresses : Probe(j, a))
  \/ StoreAll(j) \/ StoreOne(j) \/ StoreRefused(j)

Next ==
  \/ \E c \in Controllers : Move(c)
  \/ Administrator
  \/ \E j \in Jobs : Syncs(j)

(* Celery beat posts the sync again and again, every probe has a timeout,    *)
(* and the worker goes on.  Nobody else is assumed to do anything.           *)
Fairness ==
  WF_vars(BeginSync(Beat, Remotes) \/ (\E a \in Addresses : Probe(Beat, a)) \/ StoreAll(Beat))

Spec     == Init /\ [][Next]_vars
FairSpec == Spec /\ Fairness

-----------------------------------------------------------------------------
(* Properties *)

Remote == [type : Types, name : Names \cup {Blank}, ip : Somewhere, url : Somewhere] \cup {Absent}

Scans == [kind : {"sync", "page"}, of : SUBSET Remotes, seen : Remote,
          probed : SUBSET Addresses, found : SUBSET (Controllers \X Addresses)]

TypeOK ==
  /\ at \in [Controllers -> Somewhere]
  /\ remote \in [Remotes -> Remote]
  /\ layout = [r \in Remotes |-> layout[r]]
  /\ shown \in [Remotes -> SUBSET SUBSET Ids]
  /\ \A r \in Remotes : IsLayout(layout[r])
  /\ \A r \in Remotes :
       IF remote[r] = Absent THEN layout[r] = NoButtons /\ shown[r] = {}
       ELSE DOMAIN layout[r] \in shown[r]
  /\ job \in [Jobs -> Scans \cup {Quiet}]
  /\ edits \in Nat /\ faults \in Nat

(* button_config_save_view: whatever pages save, in whatever order, and      *)
(* whatever is added and deleted between, the buttons have unique keys and   *)
(* positions, each one that was submitted for it: none is left in the        *)
(* temporary area.                                                           *)
LayoutsAreSubmitted ==
  \A r \in Remotes :
    Unique(layout[r]) /\ \A b \in DOMAIN layout[r] : layout[r][b] \in Submitted(b)

(* The inductive invariant. *)
SetupInv == TypeOK /\ LayoutsAreSubmitted

(* One controller that can serve r answers to its name. *)
Answers(c, r) ==
  /\ Named(r) /\ at[c] # None /\ NameOf[c] = Fold[remote[r].name] /\ remote[r].type \in Serves[c]
  /\ \A d \in Controllers \ {c} : at[d] = None \/ NameOf[d] # NameOf[c]

(* views.py:446: "swaps cannot trip immediate database uniqueness            *)
(* constraints".  Whatever list a page may submit now, as long as no key and *)
(* no row looks temporary, no statement of its save collides, and the table  *)
(* ends as it was submitted.                                                 *)
SwapsDoNotCollide ==
  \A r \in Remotes, new \in Layouts :
    DOMAIN layout[r] \subseteq DOMAIN new /\ Unique(new) /\ Plain(new) /\ Plain(layout[r]) =>
      \A shift \in Shifts(layout[r], new) :
        NeverClashes(layout[r], new, shift) /\ Rewritten(layout[r], new, shift) = new

(* README.md:65: once controllers and administrators leave things as they    *)
(* are, every remote comes to have, and keeps, the address of the one        *)
(* controller with its name, whatever older scans still store.               *)
AddressesSettle ==
  \A r \in Remotes, c \in Controllers :
    <>[](Answers(c, r)) =>
      <>[](/\ remote[r].ip = at[c]
           /\ remote[r].type = "lg_tv" => remote[r].url = at[c])

(* The steps AddressesSettle is made of.  What a scan has found is what is   *)
(* so, and the page that waits for it asked for what the remote is ...       *)
Accurate(j) ==
  job[j].found = {<<c, at[c]>> : c \in {d \in Controllers : at[d] \in job[j].probed}}

Trusted(j, r) ==
  job[j] # Quiet =>
    /\ Accurate(j)
    /\ job[j].kind = "page" /\ r \in job[j].of =>
         job[j].seen.name = remote[r].name /\ job[j].seen.type = remote[r].type

Reached(c, r) ==
  remote[r].ip = at[c] /\ (remote[r].type = "lg_tv" => remote[r].url = at[c])

Settled(c, r) == Answers(c, r) /\ Reached(c, r) /\ \A j \in Jobs : Trusted(j, r)

(* ... a scan that starts now will find what is so, unless a controller      *)
(* moves or a probe is missed, whatever else is scanned or edited ...        *)
ScansAreAccurate ==
  [][faults' = faults =>
       \A j \in Jobs : job'[j] # Quiet /\ (job[j] = Quiet \/ Accurate(j)) => Accurate(j)']_vars

(* ... storing it gives each remote the address of the one controller of     *)
(* its name, which is looked up among the names of that moment ...           *)
SyncsReach ==
  [][faults' = faults =>
       \A j \in Jobs, r \in Remotes, c \in Controllers :
         Scanned(j, "sync") /\ job'[j] = Quiet /\ r \in job[j].of /\ Accurate(j) /\ Answers(c, r)
           => Reached(c, r)']_vars

(* ... and no other scan takes it away again, however they overlap.          *)
SettledStays ==
  [][faults' = faults /\ edits' = edits =>
       \A r \in Remotes, c \in Controllers : Settled(c, r) => Settled(c, r)']_vars
=============================================================================
