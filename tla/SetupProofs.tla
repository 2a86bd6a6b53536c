----------------------------- MODULE SetupProofs -----------------------------
(***************************************************************************)
(* Proofs about ButtonLayout and RemoteSetup, for any number of remotes,   *)
(* controllers, addresses, buttons, pages and edits.                       *)
(***************************************************************************)
EXTENDS RemoteSetup, FiniteSetTheorems, TLAPS

-----------------------------------------------------------------------------
(* The statements of one save *)

LEMMA SlotsOf ==
  ASSUME NEW l, IsLayout(l), NEW b \in DOMAIN l
  PROVE  b \in Ids /\ l[b] \in Slot
  BY DEF IsLayout

(* Rows are moved by at least Gap. *)
LEMMA ShiftIsWide ==
  ASSUME NEW old, IsLayout(old), NEW new, IsLayout(new), NEW shift \in Shifts(old, new)
  PROVE  shift \in Nat /\ shift >= Gap
  <1>. DEFINE row(b) == IF b \in DOMAIN new THEN new[b].row ELSE old[b].row
  <1>1. \A b \in DOMAIN old : row(b) \in Nat
    BY SlotsOf DEF Slot
  <1>2. PICK m \in {0} \cup {row(b) : b \in DOMAIN old} : shift = m + Gap
    BY DEF Shifts
  <1>3. m \in Nat
    BY <1>1, <1>2
  <1>. QED  BY <1>2, <1>3, LayoutAssumption

(* What a statement of a save meets: keys and rows of the present layout,    *)
(* temporary keys, moved rows, and what was submitted.                       *)
LEMMA HalfwayUnique ==
  ASSUME NEW old, IsLayout(old), Unique(old), Plain(old),
         NEW new, IsLayout(new), Unique(new), Plain(new), DOMAIN old \subseteq DOMAIN new,
         NEW shift \in Nat, shift >= Gap,
         NEW keyed \in SUBSET DOMAIN old, NEW shifted \in SUBSET DOMAIN old,
         NEW written \in SUBSET DOMAIN new,
         written = {} \/ (keyed = DOMAIN old /\ shifted = DOMAIN old)
  PROVE  Unique(Halfway(old, new, keyed, shifted, shift, written))
  <1>. DEFINE l == Halfway(old, new, keyed, shifted, shift, written)
  <1>. SUFFICES ASSUME NEW a \in DOMAIN old \cup written, NEW b \in DOMAIN old \cup written, a # b
                PROVE  ~Clash(l[a], l[b])
    BY DEF Unique, Halfway
  <1>1. /\ a \in Ids /\ b \in Ids /\ a \in DOMAIN new /\ b \in DOMAIN new
        /\ new[a] \in Slot /\ new[b] \in Slot /\ TemporaryKey[a] # TemporaryKey[b]
    BY SlotsOf, LayoutAssumption
  <1>2. \A c \in DOMAIN old : c \in Ids /\ old[c] \in Slot
    BY SlotsOf
  <1>3. Gap \in Nat /\ shift \in Nat /\ shift >= Gap
    BY LayoutAssumption
  <1>4. ~Clash(new[a], new[b])
    BY <1>1 DEF Unique
  <1>5. /\ a \in written => l[a] = new[a]
        /\ b \in written => l[b] = new[b]
    BY DEF Halfway
  <1>6. \A c \in (DOMAIN old \cup written) \ written :
          /\ l[c].key = IF c \in keyed THEN TemporaryKey[c] ELSE old[c].key
          /\ l[c].row = IF c \in shifted THEN old[c].row + shift ELSE old[c].row
          /\ l[c].column = old[c].column
    BY DEF Halfway
  <1>7. CASE a \in written /\ b \in written
    BY <1>4, <1>5, <1>7
  <1>8. ASSUME NEW c \in written, NEW d \in DOMAIN old \ written,
               c \in Ids, d \in Ids, new[c] \in Slot, l[c] = new[c]
        PROVE  ~Clash(l[c], l[d]) /\ ~Clash(l[d], l[c])
    <2>1. l[d].key = TemporaryKey[d] /\ l[d].row = old[d].row + shift
      BY <1>6, <1>8
    <2>2. new[c].key # TemporaryKey[d] /\ new[c].row < Gap /\ new[c].row \in Nat
      BY <1>8 DEF Plain, Slot
    <2>3. old[d].row \in Nat
      BY <1>2 DEF Slot
    <2>. QED  BY <2>1, <2>2, <2>3, <1>3, <1>8 DEF Clash
  <1>9. CASE a \notin written /\ b \notin written
    <2>1. a \in DOMAIN old /\ b \in DOMAIN old /\ ~Clash(old[a], old[b])
      BY <1>9 DEF Unique
    <2>2. /\ old[a].row \in Nat /\ old[b].row \in Nat /\ old[a].row < Gap /\ old[b].row < Gap
      BY <1>2, <2>1 DEF Plain, Slot
    <2>3. old[a].key # TemporaryKey[b] /\ old[b].key # TemporaryKey[a]
      BY <1>1, <2>1 DEF Plain
    <2>4. l[a].key # l[b].key
      BY <1>1, <1>6, <1>9, <2>1, <2>3 DEF Clash
    <2>5. ~(l[a].row = l[b].row /\ l[a].column = l[b].column)
      BY <1>3, <1>6, <1>9, <2>1, <2>2 DEF Clash
    <2>. QED  BY <2>4, <2>5 DEF Clash
  <1>. QED  BY <1>1, <1>5, <1>7, <1>8, <1>9

(* One save never meets a row with its key or position, whatever the order   *)
(* of the rows, and stores what was submitted.                               *)
THEOREM SaveNeverCollides ==
  ASSUME NEW old, IsLayout(old), Unique(old), Plain(old),
         NEW new, IsLayout(new), Unique(new), Plain(new), DOMAIN old \subseteq DOMAIN new,
         NEW shift \in Shifts(old, new)
  PROVE  NeverClashes(old, new, shift) /\ Rewritten(old, new, shift) = new
  <1>1. shift \in Nat /\ shift >= Gap
    BY ShiftIsWide
  <1>2. \A some \in SUBSET DOMAIN old : Unique(Halfway(old, new, some, {}, shift, {}))
    BY <1>1, HalfwayUnique
  <1>3. \A some \in SUBSET DOMAIN old : Unique(Halfway(old, new, DOMAIN old, some, shift, {}))
    BY <1>1, HalfwayUnique
  <1>4. \A some \in SUBSET DOMAIN new : Unique(Halfway(old, new, DOMAIN old, DOMAIN old, shift, some))
    BY <1>1, HalfwayUnique
  <1>5. Rewritten(old, new, shift) = new
    BY DEF Rewritten, Halfway, IsLayout
  <1>. QED  BY <1>2, <1>3, <1>4, <1>5 DEF NeverClashes

(* The whole table becomes what was submitted, in any case. *)
LEMMA SavedIsSubmitted ==
  ASSUME NEW old, NEW new, IsLayout(new), NEW shift, DOMAIN old \subseteq DOMAIN new
  PROVE  Rewritten(old, new, shift) = new
  BY DEF Rewritten, Halfway, IsLayout

-----------------------------------------------------------------------------
(* Type correctness *)

(* What a scan that is under way may look like. *)
LEMMA JobType ==
  ASSUME TypeOK, NEW j \in Jobs, job[j] # Quiet
  PROVE  job[j] \in Scans
  BY DEF TypeOK

(* The one device that has a name has an address. *)
LEMMA FoundType ==
  ASSUME NEW found \in SUBSET (Controllers \X Addresses), NEW matches \in SUBSET found,
         NEW type, Suitable(type, matches)
  PROVE  Found(matches) \in Somewhere /\ type \in Types
  <1>1. matches # {}
    BY FS_EmptySet DEF Suitable
  <1>2. PICK f \in matches : f = CHOOSE g \in matches : TRUE
    BY <1>1
  <1>3. f \in Controllers \X Addresses /\ type \in Serves[f[1]]
    BY <1>2 DEF Suitable
  <1>4. f[1] \in Controllers /\ f[2] \in Addresses
    BY <1>3
  <1>. QED  BY <1>2, <1>3, <1>4, SetupAssumption DEF Found, Somewhere

(* Remotes that are there have one of the three types. *)
LEMMA PresentHasType ==
  ASSUME NEW rec \in Remote
  PROVE  rec # Absent <=> rec.type \in Types
  BY DEF Remote, Absent, Types

LEMMA AddressedType ==
  ASSUME NEW rec \in Remote, rec.type \in Types, NEW a \in Somewhere
  PROVE  Addressed(rec, a) \in Remote /\ Addressed(rec, a) # Absent
  <1>1. rec \in [type : Types, name : Names \cup {Blank}, ip : Somewhere, url : Somewhere]
    BY DEF Remote, Absent, Types
  <1>2. Addressed(rec, a) \in [type : Types, name : Names \cup {Blank}, ip : Somewhere, url : Somewhere]
    BY <1>1 DEF Addressed
  <1>. QED  BY <1>2 DEF Remote, Absent, Types

LEMMA SyncedType ==
  ASSUME NEW rec \in Remote, rec # Absent,
         NEW found \in SUBSET (Controllers \X Addresses), NEW matches \in SUBSET found
  PROVE  Synced(rec, matches) \in Remote /\ Synced(rec, matches) # Absent
  <1>1. CASE Suitable(rec.type, matches)
    BY <1>1, FoundType, AddressedType, PresentHasType DEF Synced
  <1>2. CASE ~Suitable(rec.type, matches) /\ rec.type = "ac"
    <2>1. rec \in [type : Types, name : Names \cup {Blank}, ip : Somewhere, url : Somewhere]
      BY DEF Remote
    <2>2. [rec EXCEPT !.ip = None] \in [type : Types, name : Names \cup {Blank}, ip : Somewhere, url : Somewhere]
      BY <2>1 DEF Somewhere
    <2>. QED  BY <1>2, <2>2 DEF Synced, Remote, Absent, Types
  <1>. QED  BY <1>1, <1>2 DEF Synced

LEMMA NoButtonsLayout == IsLayout(NoButtons) /\ DOMAIN NoButtons = {}
  <1>1. NoButtons \in [{} -> Slot] /\ DOMAIN NoButtons = {}
    BY DEF NoButtons
  <1>2. {} \in SUBSET Ids
    OBVIOUS
  <1>. QED  BY <1>1, <1>2 DEF IsLayout

LEMMA TypeInit == Init => TypeOK
  BY NoButtonsLayout DEF Init, TypeOK, Remote

(* The conjuncts of TypeOK about remotes and their buttons. *)
RemotesOK ==
  /\ remote \in [Remotes -> Remote]
  /\ layout = [r \in Remotes |-> layout[r]]
  /\ shown \in [Remotes -> SUBSET SUBSET Ids]
  /\ \A r \in Remotes : IsLayout(layout[r])
  /\ \A r \in Remotes :
       IF remote[r] = Absent THEN layout[r] = NoButtons /\ shown[r] = {}
       ELSE DOMAIN layout[r] \in shown[r]

(* One remote that is there gets another row, other buttons, other pages. *)
LEMMA RemoteChanges ==
  ASSUME RemotesOK, NEW r \in Remotes,
         NEW rec \in Remote, rec # Absent, remote' = [remote EXCEPT ![r] = rec],
         NEW new, IsLayout(new), layout' = [layout EXCEPT ![r] = new],
         NEW pages \in SUBSET SUBSET Ids, DOMAIN new \in pages, shown' = [shown EXCEPT ![r] = pages]
  PROVE  RemotesOK'
  <1>. USE DEF RemotesOK
  <1>1. remote' \in [Remotes -> Remote] /\ shown' \in [Remotes -> SUBSET SUBSET Ids]
    OBVIOUS
  <1>2. layout' = [s \in Remotes |-> layout'[s]] /\ \A s \in Remotes : IsLayout(layout'[s])
    OBVIOUS
  <1>3. \A s \in Remotes :
          IF remote'[s] = Absent THEN layout'[s] = NoButtons /\ shown'[s] = {}
          ELSE DOMAIN layout'[s] \in shown'[s]
    OBVIOUS
  <1>. QED  BY <1>1, <1>2, <1>3

(* One remote that is there gets another row. *)
LEMMA RowChanges ==
  ASSUME RemotesOK, NEW r \in Remotes, remote[r] # Absent,
         NEW rec \in Remote, rec # Absent, remote' = [remote EXCEPT ![r] = rec],
         UNCHANGED <<layout, shown>>
  PROVE  RemotesOK'
  BY DEF RemotesOK

LEMMA LayoutDomain ==
  ASSUME NEW l, IsLayout(l)
  PROVE  DOMAIN l \in SUBSET Ids
  BY DEF IsLayout

(* Administrators *)
LEMMA AdministratorType ==
  ASSUME TypeOK, Administrator
  PROVE  RemotesOK'
  <1>0. RemotesOK
    BY DEF TypeOK, RemotesOK
  <1>. PICK r \in Remotes :
         \/ DeleteRemote(r) \/ \E type \in Types : CreateRemote(r, type)
         \/ \E name \in Names \cup {Blank} :
              \/ \E new \in Layouts : AddFromTemplate(r, name, new)
              \/ \E type \in Types, url \in Typed : AdminSave(r, type, name, url)
              \/ \E list \in shown[r], new \in Layouts : Save(r, list, new, name)
         \/ \E b \in Ids : DeleteButton(r, b) \/ \E slot \in Submitted(b) : PutButton(r, b, slot)
    BY DEF Administrator
  <1>r. remote[r] # Absent =>
          remote[r] \in [type : Types, name : Names \cup {Blank}, ip : Somewhere, url : Somewhere]
    BY <1>0 DEF RemotesOK, Remote
  <1>a. \A rec \in [type : Types, name : Names \cup {Blank}, ip : Somewhere, url : Somewhere] :
          rec \in Remote /\ rec # Absent
    BY DEF Remote, Absent, Types
  <1>1. ASSUME NEW type \in Types, CreateRemote(r, type) PROVE RemotesOK'
    <2>. DEFINE rec == [Absent EXCEPT !.type = type]
    <2>1. rec \in Remote /\ rec # Absent
      <3>. rec \in [type : Types, name : Names \cup {Blank}, ip : Somewhere, url : Somewhere]
        BY DEF Absent, Somewhere
      <3>. QED  BY <1>a
    <2>2. IsLayout(layout[r]) /\ layout[r] = NoButtons /\ DOMAIN layout[r] = {}
      BY <1>0, <1>1 DEF RemotesOK, CreateRemote, Fresh, NoButtons
    <2>3. layout' = [layout EXCEPT ![r] = layout[r]]
      BY <1>0, <1>1 DEF RemotesOK, CreateRemote
    <2>4. /\ remote' = [remote EXCEPT ![r] = rec]
          /\ shown' = [shown EXCEPT ![r] = {{}}]
      BY <1>1 DEF CreateRemote
    <2>5. {{}} \in SUBSET SUBSET Ids /\ DOMAIN layout[r] \in {{}}
      BY <2>2
    <2>. HIDE DEF rec
    <2>. QED  BY <1>0, <2>1, <2>2, <2>3, <2>4, <2>5, RemoteChanges
  <1>2. ASSUME NEW name \in Names \cup {Blank}, NEW new \in Layouts, AddFromTemplate(r, name, new)
        PROVE  RemotesOK'
    <2>1. [Absent EXCEPT !.type = "raw", !.name = name]
            \in [type : Types, name : Names \cup {Blank}, ip : Somewhere, url : Somewhere]
      BY DEF Absent, Somewhere, Types
    <2>2. IsLayout(new) /\ DOMAIN new \in SUBSET Ids
      BY SetupAssumption, LayoutDomain
    <2>. QED  BY <1>0, <1>2, <1>a, <2>1, <2>2, RemoteChanges DEF AddFromTemplate
  <1>3. ASSUME NEW name \in Names \cup {Blank}, NEW type \in Types, NEW url \in Typed,
               AdminSave(r, type, name, url)
        PROVE  RemotesOK'
    <2>. DEFINE rec == [remote[r] EXCEPT !.type = type, !.name = name, !.url = url]
    <2>1. rec \in Remote /\ rec # Absent
      <3>. rec \in [type : Types, name : Names \cup {Blank}, ip : Somewhere, url : Somewhere]
        BY <1>r, <1>3, SetupAssumption DEF AdminSave, Somewhere
      <3>. QED  BY <1>a
    <2>2. remote' = [remote EXCEPT ![r] = rec] /\ remote[r] # Absent
      BY <1>0, <1>3 DEF AdminSave, RemotesOK
    <2>3. UNCHANGED <<layout, shown>>
      BY <1>3 DEF AdminSave
    <2>. HIDE DEF rec
    <2>. QED  BY <1>0, <2>1, <2>2, <2>3, RowChanges
  <1>4. ASSUME NEW name \in Names \cup {Blank}, NEW list \in shown[r], NEW new \in Layouts,
               Save(r, list, new, name)
        PROVE  RemotesOK'
    <2>1. IsLayout(new) /\ DOMAIN new \in SUBSET Ids
      BY SetupAssumption, LayoutDomain
    <2>2. layout' = [layout EXCEPT ![r] = new]
      <3>1. PICK shift \in Shifts(layout[r], new) :
              layout' = [layout EXCEPT ![r] = Rewritten(layout[r], new, shift)]
        BY <1>4 DEF Save
      <3>2. DOMAIN layout[r] \subseteq DOMAIN new
        BY <1>4 DEF Save, Current
      <3>. QED  BY <2>1, <3>1, <3>2, SavedIsSubmitted
    <2>3. remote[r] # Absent
      <3>1. CASE remote[r] = Absent
        BY <3>1, <1>0 DEF RemotesOK
      <3>. QED  BY <3>1
    <2>. DEFINE rec == [remote[r] EXCEPT !.name = name]
    <2>4. rec \in Remote /\ rec # Absent
      <3>. rec \in [type : Types, name : Names \cup {Blank}, ip : Somewhere, url : Somewhere]
        BY <1>r, <2>3
      <3>. QED  BY <1>a
    <2>5. remote' = [remote EXCEPT ![r] = rec]
      BY <1>0, <1>4 DEF Save, RemotesOK
    <2>6. /\ DOMAIN layout'[r] = DOMAIN new
          /\ shown' = [shown EXCEPT ![r] = shown[r] \cup {DOMAIN new}]
          /\ shown[r] \in SUBSET SUBSET Ids
      BY <1>0, <1>4, <2>2 DEF RemotesOK, Save
    <2>7. shown[r] \cup {DOMAIN new} \in SUBSET SUBSET Ids /\ DOMAIN new \in shown[r] \cup {DOMAIN new}
      BY <2>1, <2>6
    <2>. HIDE DEF rec
    <2>. QED  BY <1>0, <2>1, <2>2, <2>4, <2>5, <2>6, <2>7, RemoteChanges
  <1>5. ASSUME NEW b \in Ids, DeleteButton(r, b) PROVE RemotesOK'
    <2>. DEFINE rest == [k \in DOMAIN layout[r] \ {b} |-> layout[r][k]]
    <2>1. IsLayout(rest) /\ DOMAIN rest \in SUBSET Ids /\ DOMAIN rest = DOMAIN layout[r] \ {b}
      <3>1. PICK ids \in SUBSET Ids : layout[r] \in [ids -> Slot]
        BY <1>0 DEF RemotesOK, IsLayout
      <3>2. rest \in [ids \ {b} -> Slot]
        BY <3>1
      <3>3. ids \ {b} \in SUBSET Ids
        BY <3>1
      <3>. HIDE DEF rest
      <3>4. IsLayout(rest)
        BY <3>2, <3>3 DEF IsLayout
      <3>. QED  BY <3>1, <3>2, <3>3, <3>4
    <2>2. remote[r] # Absent
      BY <1>0, <1>5 DEF RemotesOK, DeleteButton, NoButtons
    <2>3. remote' = [remote EXCEPT ![r] = remote[r]] /\ remote[r] \in Remote
      BY <1>0, <1>5 DEF RemotesOK, DeleteButton
    <2>4. shown' = [shown EXCEPT ![r] = shown[r] \cup {DOMAIN rest}] /\ shown[r] \in SUBSET SUBSET Ids
      BY <1>0, <1>5, <2>1 DEF RemotesOK, DeleteButton
    <2>5. layout' = [layout EXCEPT ![r] = rest]
      BY <1>5 DEF DeleteButton
    <2>6. shown[r] \cup {DOMAIN rest} \in SUBSET SUBSET Ids /\ DOMAIN rest \in shown[r] \cup {DOMAIN rest}
      BY <2>1, <2>4
    <2>. HIDE DEF rest
    <2>. QED  BY <1>0, <2>1, <2>2, <2>3, <2>4, <2>5, <2>6, RemoteChanges
  <1>6. ASSUME NEW b \in Ids, NEW slot \in Submitted(b), PutButton(r, b, slot) PROVE RemotesOK'
    <2>. DEFINE new == [k \in DOMAIN layout[r] \cup {b} |-> IF k = b THEN slot ELSE layout[r][k]]
    <2>1. slot \in Slot
      BY SetupAssumption, SlotsOf DEF Submitted
    <2>2. IsLayout(layout[r])
      BY <1>0 DEF RemotesOK
    <2>3. IsLayout(new) /\ DOMAIN new \in SUBSET Ids /\ DOMAIN new = DOMAIN layout[r] \cup {b}
      <3>1. PICK ids \in SUBSET Ids : layout[r] \in [ids -> Slot]
        BY <2>2 DEF IsLayout
      <3>2. new \in [ids \cup {b} -> Slot]
        BY <2>1, <3>1
      <3>3. ids \cup {b} \in SUBSET Ids
        BY <3>1
      <3>. HIDE DEF new
      <3>4. IsLayout(new)
        BY <3>2, <3>3 DEF IsLayout
      <3>. QED  BY <3>1, <3>2, <3>3, <3>4
    <2>4. remote' = [remote EXCEPT ![r] = remote[r]] /\ remote[r] \in Remote /\ remote[r] # Absent
      BY <1>0, <1>6 DEF RemotesOK, PutButton
    <2>5. shown' = [shown EXCEPT ![r] = shown[r] \cup {DOMAIN new}] /\ shown[r] \in SUBSET SUBSET Ids
      BY <1>0, <1>6, <2>3 DEF RemotesOK, PutButton
    <2>6. layout' = [layout EXCEPT ![r] = new]
      BY <1>6 DEF PutButton
    <2>7. shown[r] \cup {DOMAIN new} \in SUBSET SUBSET Ids /\ DOMAIN new \in shown[r] \cup {DOMAIN new}
      BY <2>3, <2>5
    <2>. HIDE DEF new
    <2>. QED  BY <1>0, <2>3, <2>4, <2>5, <2>6, <2>7, RemoteChanges
  <1>7. CASE DeleteRemote(r)
    <2>1. Absent \in Remote
      BY DEF Remote
    <2>. QED  BY <1>0, <1>7, <2>1, NoButtonsLayout DEF DeleteRemote, RemotesOK
  <1>. QED  BY <1>1, <1>2, <1>3, <1>4, <1>5, <1>6, <1>7

(* Jobs, and the remotes they store to *)
JobsOK == job \in [Jobs -> Scans \cup {Quiet}]

LEMMA JobChanges ==
  ASSUME TypeOK, NEW j \in Jobs, NEW scan \in Scans \cup {Quiet}, job' = [job EXCEPT ![j] = scan]
  PROVE  JobsOK'
  BY DEF TypeOK, JobsOK

LEMMA ScanType ==
  ASSUME NEW kind \in {"sync", "page"}, NEW of \in SUBSET Remotes, NEW seen \in Remote
  PROVE  Scan(kind, of, seen) \in Scans
  BY DEF Scan, Scans

LEMMA MatchesType ==
  ASSUME TypeOK, NEW j \in Jobs, job[j] # Quiet, NEW name
  PROVE  /\ job[j].found \in SUBSET (Controllers \X Addresses)
         /\ Matches(j, name) \in SUBSET job[j].found
  BY JobType DEF Scans, Matches

LEMMA SyncsType ==
  ASSUME TypeOK, NEW j \in Jobs, Syncs(j)
  PROVE  RemotesOK' /\ JobsOK'
  <1>0. RemotesOK
    BY DEF TypeOK, RemotesOK
  <1>q. Quiet \in Scans \cup {Quiet}
    OBVIOUS
  <1>1. ASSUME NEW of \in SUBSET Remotes, BeginSync(j, of) PROVE RemotesOK' /\ JobsOK'
    <2>1. Scan("sync", of, Absent) \in Scans
      BY ScanType DEF Remote
    <2>. QED  BY <1>0, <1>1, <2>1, JobChanges DEF BeginSync, rows, RemotesOK
  <1>2. ASSUME NEW r \in Remotes, NEW name \in Names, BeginPageSync(j, r, name) PROVE RemotesOK' /\ JobsOK'
    <2>. DEFINE rec == [remote[r] EXCEPT !.name = name]
    <2>2. rec \in Remote /\ rec # Absent
      BY <1>0, <1>2 DEF BeginPageSync, RemotesOK, Remote, Absent, Types
    <2>3. remote' = [remote EXCEPT ![r] = rec] /\ UNCHANGED <<layout, shown>> /\ remote[r] # Absent
      BY <1>0, <1>2 DEF BeginPageSync, RemotesOK
    <2>1. JobsOK'
      <3>. DEFINE seen == [remote'[r] EXCEPT !.ip = None]
      <3>1. remote'[r] = rec
        BY <1>0, <2>3 DEF RemotesOK
      <3>2. seen \in Remote
        BY <2>2, <3>1 DEF Remote, Absent, Somewhere
      <3>3. job' = [job EXCEPT ![j] = Scan("page", {r}, seen)]
        BY <1>2 DEF BeginPageSync
      <3>. HIDE DEF seen
      <3>. QED  BY <3>2, <3>3, ScanType, JobChanges
    <2>. HIDE DEF rec
    <2>. QED  BY <1>0, <2>1, <2>2, <2>3, RowChanges
  <1>3. CASE DiscoveryFails(j) \/ StoreRefused(j)
    BY <1>0, <1>3, <1>q, JobChanges DEF DiscoveryFails, StoreRefused, rows, RemotesOK
  <1>4. ASSUME NEW a \in Addresses, Probe(j, a) PROVE RemotesOK' /\ JobsOK'
    <2>1. PICK answers \in {{<<c, a>> : c \in {c \in Controllers : at[c] = a}}, {}} :
            job' = [job EXCEPT ![j].probed = @ \cup {a}, ![j].found = @ \cup answers]
      BY <1>4 DEF Probe
    <2>2. answers \in SUBSET (Controllers \X Addresses)
      OBVIOUS
    <2>3. job[j] \in Scans
      BY <1>4, JobType DEF Probe
    <2>. DEFINE scan == [job[j] EXCEPT !.probed = @ \cup {a}, !.found = @ \cup answers]
    <2>4. scan \in Scans
      BY <2>2, <2>3 DEF Scans
    <2>5. job' = [job EXCEPT ![j] = scan]
      BY <2>1 DEF TypeOK
    <2>. HIDE DEF scan
    <2>. QED  BY <1>0, <1>4, <2>4, <2>5, JobChanges DEF Probe, rows, RemotesOK
  <1>5. CASE StoreAll(j)
    <2>1. JobsOK'
      BY <1>5, <1>q, JobChanges DEF StoreAll
    <2>. DEFINE next(r) == IF r \in job[j].of /\ Named(r)
                             THEN Synced(remote[r], Matches(j, remote[r].name)) ELSE remote[r]
    <2>2. ASSUME NEW r \in Remotes
          PROVE  next(r) \in Remote /\ (next(r) = Absent <=> remote[r] = Absent)
      <3>1. CASE r \in job[j].of /\ Named(r)
        <4>1. remote[r] \in Remote /\ remote[r] # Absent
          BY <1>0, <3>1 DEF RemotesOK, Named
        <4>. QED  BY <1>5, <3>1, <4>1, MatchesType, SyncedType DEF StoreAll, Scanned
      <3>. QED  BY <1>0, <3>1 DEF RemotesOK
    <2>3. remote' = [r \in Remotes |-> next(r)] /\ UNCHANGED <<layout, shown>>
      BY <1>5 DEF StoreAll
    <2>. HIDE DEF next
    <2>. QED  BY <1>0, <2>1, <2>2, <2>3 DEF RemotesOK
  <1>6. CASE StoreOne(j)
    <2>1. JobsOK'
      BY <1>6, <1>q, JobChanges DEF StoreOne
    <2>. DEFINE seen == job[j].seen
    <2>. DEFINE found == Matches(j, seen.name)
    <2>. DEFINE new == Addressed(seen, Found(found))
    <2>. DEFINE next(r) == IF r \in job[j].of /\ remote[r] # Absent /\ Suitable(seen.type, found)
                             THEN [remote[r] EXCEPT !.ip = new.ip, !.url = new.url] ELSE remote[r]
    <2>2. ASSUME NEW r \in Remotes
          PROVE  next(r) \in Remote /\ (next(r) = Absent <=> remote[r] = Absent)
      <3>1. CASE r \in job[j].of /\ remote[r] # Absent /\ Suitable(seen.type, found)
        <4>1. remote[r] \in Remote /\ seen \in Remote /\ remote[r] # Absent
          BY <1>0, <1>6, <3>1, JobType DEF RemotesOK, StoreOne, Scanned, Scans
        <4>2. Found(found) \in Somewhere /\ seen.type \in Types
          BY <1>6, <3>1, MatchesType, FoundType DEF StoreOne, Scanned
        <4>3. new \in Remote /\ new # Absent
          BY <4>1, <4>2, AddressedType
        <4>4. new.ip \in Somewhere /\ new.url \in Somewhere
          BY <4>3 DEF Remote
        <4>5. /\ remote[r] \in [type : Types, name : Names \cup {Blank}, ip : Somewhere, url : Somewhere]
              /\ next(r) = [remote[r] EXCEPT !.ip = new.ip, !.url = new.url]
          BY <3>1, <4>1 DEF Remote
        <4>. HIDE DEF new
        <4>. QED  BY <4>1, <4>4, <4>5 DEF Remote, Absent, Types
      <3>. QED  BY <1>0, <3>1 DEF RemotesOK
    <2>3. remote' = [r \in Remotes |-> next(r)] /\ UNCHANGED <<layout, shown>>
      BY <1>6 DEF StoreOne
    <2>. HIDE DEF next
    <2>. QED  BY <1>0, <2>1, <2>2, <2>3 DEF RemotesOK
  <1>. QED  BY <1>1, <1>2, <1>3, <1>4, <1>5, <1>6 DEF Syncs

(* Administrators move no controller and stop no scan. *)
LEMMA AdministratorFrame ==
  Administrator => UNCHANGED <<at, job, faults>> /\ (edits' = edits \/ edits' = edits + 1)
  <1>1. \A r : DeleteRemote(r) \/ (\E type : CreateRemote(r, type)) =>
          UNCHANGED <<at, job, faults>> /\ (edits' = edits \/ edits' = edits + 1)
    BY DEF CreateRemote, DeleteRemote, Edit
  <1>2. \A r, name, new : AddFromTemplate(r, name, new) => UNCHANGED <<at, job, edits, faults>>
    BY DEF AddFromTemplate
  <1>3. \A r, type, name, url : AdminSave(r, type, name, url) =>
          UNCHANGED <<at, job, faults>> /\ edits' = edits + 1
    BY DEF AdminSave, Edit
  <1>4. \A r, list, new, name : Save(r, list, new, name) =>
          UNCHANGED <<at, job, faults>> /\ edits' = edits + 1
    BY DEF Save, Edit
  <1>5. \A r, b, slot : DeleteButton(r, b) \/ PutButton(r, b, slot) =>
          UNCHANGED <<at, job, faults>> /\ edits' = edits + 1
    BY DEF DeleteButton, PutButton, Edit
  <1>. QED  BY <1>1, <1>2, <1>3, <1>4, <1>5 DEF Administrator

LEMMA TypeStep == TypeOK /\ [Next]_vars => TypeOK'
  <1>. SUFFICES ASSUME TypeOK, [Next]_vars PROVE TypeOK'
    OBVIOUS
  <1>0. TypeOK' <=> /\ at' \in [Controllers -> Somewhere]
                    /\ RemotesOK' /\ JobsOK'
                    /\ edits' \in Nat /\ faults' \in Nat
    BY DEF TypeOK, RemotesOK, JobsOK
  <1>1. ASSUME NEW c \in Controllers, Move(c) PROVE TypeOK'
    <2>1. at' \in [Controllers -> Somewhere]
      BY <1>1 DEF Move, TypeOK
    <2>. QED  BY <1>0, <1>1, <2>1 DEF Move, Fault, TypeOK, RemotesOK, JobsOK, rows
  <1>2. CASE Administrator
    <2>1. UNCHANGED <<at, job, faults>> /\ (edits' = edits \/ edits' = edits + 1)
      BY <1>2, AdministratorFrame
    <2>2. JobsOK'
      BY <2>1 DEF TypeOK, JobsOK
    <2>. QED  BY <1>0, <1>2, <2>1, <2>2, AdministratorType DEF TypeOK
  <1>3. ASSUME NEW j \in Jobs, Syncs(j) PROVE TypeOK'
    <2>1. /\ UNCHANGED at
          /\ edits' = edits \/ edits' = edits + 1
          /\ faults' = faults \/ faults' = faults + 1
      BY <1>3 DEF Syncs, BeginSync, BeginPageSync, DiscoveryFails, Probe, StoreAll, StoreOne, StoreRefused,
                  Edit, Fault
    <2>2. at' \in [Controllers -> Somewhere] /\ edits' \in Nat /\ faults' \in Nat
      BY <2>1 DEF TypeOK
    <2>. QED  BY <1>0, <1>3, <2>2, SyncsType
  <1>4. CASE UNCHANGED vars
    BY <1>4 DEF TypeOK, vars
  <1>. QED  BY <1>1, <1>2, <1>3, <1>4 DEF Next

-----------------------------------------------------------------------------
(* What the buttons are *)

LEMMA LayoutsInit == Init => LayoutsAreSubmitted
  BY DEF Init, LayoutsAreSubmitted, NoButtons, Unique

LEMMA LayoutsStep == TypeOK /\ LayoutsAreSubmitted /\ [Next]_vars => LayoutsAreSubmitted'
  <1>. SUFFICES ASSUME TypeOK, LayoutsAreSubmitted, [Next]_vars PROVE LayoutsAreSubmitted'
    OBVIOUS
  <1>1. ASSUME NEW r \in Remotes, NEW new, Unique(new), \A b \in DOMAIN new : new[b] \in Submitted(b),
               layout' = [layout EXCEPT ![r] = new]
        PROVE  LayoutsAreSubmitted'
    BY <1>1 DEF LayoutsAreSubmitted, TypeOK, Submitted
  <1>2. ASSUME NEW new \in Layouts, Unique(new) PROVE \A b \in DOMAIN new : new[b] \in Submitted(b)
    BY DEF Submitted
  <1>3. ASSUME NEW r \in Remotes, NEW name, NEW new \in Layouts, AddFromTemplate(r, name, new)
        PROVE  LayoutsAreSubmitted'
    BY <1>1, <1>2, <1>3 DEF AddFromTemplate
  <1>4. ASSUME NEW r \in Remotes, NEW list, NEW new \in Layouts, NEW name, Save(r, list, new, name)
        PROVE  LayoutsAreSubmitted'
    <2>1. PICK shift \in Shifts(layout[r], new) :
            layout' = [layout EXCEPT ![r] = Rewritten(layout[r], new, shift)]
      BY <1>4 DEF Save
    <2>2. DOMAIN layout[r] \subseteq DOMAIN new /\ Unique(new)
      BY <1>4 DEF Save, Current
    <2>3. IsLayout(new)
      BY SetupAssumption
    <2>4. layout' = [layout EXCEPT ![r] = new]
      BY <2>1, <2>2, <2>3, SavedIsSubmitted
    <2>. QED  BY <1>1, <1>2, <2>2, <2>4
  <1>5. ASSUME NEW r \in Remotes, NEW b, DeleteButton(r, b) PROVE LayoutsAreSubmitted'
    <2>. DEFINE rest == [k \in DOMAIN layout[r] \ {b} |-> layout[r][k]]
    <2>1. Unique(rest) /\ \A k \in DOMAIN rest : rest[k] \in Submitted(k)
      BY DEF LayoutsAreSubmitted, Unique
    <2>2. layout' = [layout EXCEPT ![r] = rest]
      BY <1>5 DEF DeleteButton
    <2>. HIDE DEF rest
    <2>. QED  BY <1>1, <2>1, <2>2
  <1>11. ASSUME NEW r \in Remotes, NEW b, NEW slot \in Submitted(b), PutButton(r, b, slot)
         PROVE  LayoutsAreSubmitted'
    <2>. DEFINE new == [k \in DOMAIN layout[r] \cup {b} |-> IF k = b THEN slot ELSE layout[r][k]]
    <2>1. /\ Unique(layout[r])
          /\ \A k \in DOMAIN layout[r] : layout[r][k] \in Submitted(k)
          /\ \A k \in DOMAIN layout[r] \ {b} : ~Clash(layout[r][k], slot)
      BY <1>11 DEF LayoutsAreSubmitted, PutButton
    <2>2. Unique(new)
      BY <2>1 DEF Unique, Clash
    <2>3. \A k \in DOMAIN new : new[k] \in Submitted(k)
      BY <2>1
    <2>4. layout' = [layout EXCEPT ![r] = new]
      BY <1>11 DEF PutButton
    <2>. HIDE DEF new
    <2>. QED  BY <1>1, <2>2, <2>3, <2>4
  <1>12. ASSUME NEW r \in Remotes, DeleteRemote(r) PROVE LayoutsAreSubmitted'
    <2>1. Unique(NoButtons) /\ DOMAIN NoButtons = {}
      BY DEF Unique, NoButtons
    <2>. QED  BY <1>1, <1>12, <2>1 DEF DeleteRemote
  <1>6. CASE UNCHANGED layout
    BY <1>6 DEF LayoutsAreSubmitted, Submitted
  <1>7. CASE Administrator
    BY <1>3, <1>4, <1>5, <1>6, <1>7, <1>11, <1>12 DEF Administrator, CreateRemote, AdminSave
  <1>8. ASSUME NEW j \in Jobs, Syncs(j) PROVE UNCHANGED layout
    BY <1>8 DEF Syncs, BeginSync, BeginPageSync, DiscoveryFails, Probe, StoreAll, StoreOne, StoreRefused, rows
  <1>9. ASSUME NEW c \in Controllers, Move(c) PROVE UNCHANGED layout
    BY <1>9 DEF Move, rows
  <1>10. CASE UNCHANGED vars
    BY <1>6, <1>10 DEF vars
  <1>. QED  BY <1>6, <1>7, <1>8, <1>9, <1>10 DEF Next

-----------------------------------------------------------------------------
(* button_config_save_view, add_from_template_view and every sync: whatever  *)
(* is saved from pages of any age, added, deleted and synchronised, in any   *)
(* order, keys and positions stay unique, no button is left with a temporary *)
(* key or a moved row, and rows stay well typed.                             *)
THEOREM SetupInvariant == Spec => []SetupInv
  <1>1. Init => SetupInv
    BY TypeInit, LayoutsInit DEF SetupInv
  <1>2. SetupInv /\ [Next]_vars => SetupInv'
    BY TypeStep, LayoutsStep DEF SetupInv
  <1>. QED  BY <1>1, <1>2, PTL DEF Spec

(* views.py:446: in every state that is reached, no page can submit a list   *)
(* whose save meets a row with its key or position halfway, whatever the     *)
(* order of the rows, and the table becomes what was submitted.              *)
THEOREM SwapsNeverCollide == Spec => []SwapsDoNotCollide
  <1>1. SetupInv => SwapsDoNotCollide
    <2>. SUFFICES ASSUME SetupInv, NEW r \in Remotes, NEW new \in Layouts,
                         DOMAIN layout[r] \subseteq DOMAIN new, Unique(new), Plain(new), Plain(layout[r]),
                         NEW shift \in Shifts(layout[r], new)
                  PROVE  NeverClashes(layout[r], new, shift) /\ Rewritten(layout[r], new, shift) = new
      BY DEF SwapsDoNotCollide
    <2>1. IsLayout(layout[r]) /\ Unique(layout[r]) /\ IsLayout(new)
      BY SetupAssumption DEF SetupInv, TypeOK, LayoutsAreSubmitted
    <2>. QED  BY <2>1, SaveNeverCollides
  <1>. QED  BY <1>1, SetupInvariant, PTL

-----------------------------------------------------------------------------
(* How addresses settle *)

(* What a step that is neither a fault nor a write of an administrator can do. *)
LEMMA Undisturbed ==
  ASSUME TypeOK, [Next]_vars, faults' = faults
  PROVE  /\ UNCHANGED at
         /\ \A j \in Jobs : ~DiscoveryFails(j) /\ ~StoreRefused(j)
  <1>1. ~Fault
    BY DEF Fault, TypeOK
  <1>2. \A j \in Jobs : ~DiscoveryFails(j) /\ ~StoreRefused(j)
    BY <1>1 DEF DiscoveryFails, StoreRefused
  <1>3. \A c \in Controllers : ~Move(c)
    BY <1>1 DEF Move
  <1>4. Administrator => UNCHANGED at
    BY AdministratorFrame
  <1>5. \A j \in Jobs : Syncs(j) => UNCHANGED at
    BY DEF Syncs, BeginSync, BeginPageSync, DiscoveryFails, Probe, StoreAll, StoreOne, StoreRefused
  <1>. QED  BY <1>2, <1>3, <1>4, <1>5 DEF Next, vars

(* A scan begins, is stored, or finds the controllers at one more address.   *)
ScanBegins(j, new) == job[j] = Quiet /\ new.probed = {} /\ new.found = {}

ScanGoesOn(j, new) ==
  \E a \in Addresses :
    new = [job[j] EXCEPT !.probed = @ \cup {a}, !.found = @ \cup {<<c, a>> : c \in {d \in Controllers : at[d] = a}}]

LEMMA JobStep ==
  ASSUME TypeOK, [Next]_vars, faults' = faults, NEW j \in Jobs
  PROVE  \/ job'[j] = job[j]
         \/ job'[j] = Quiet /\ (StoreAll(j) \/ StoreOne(j))
         \/ ScanBegins(j, job'[j])
         \/ job[j] # Quiet /\ ScanGoesOn(j, job'[j])
  <1>0. job \in [Jobs -> Scans \cup {Quiet}]
    BY DEF TypeOK
  <1>1. ASSUME NEW k \in Jobs, NEW scan, job' = [job EXCEPT ![k] = scan]
        PROVE  job'[j] = IF j = k THEN scan ELSE job[j]
    BY <1>0, <1>1
  <1>2. CASE UNCHANGED job
    BY <1>2
  <1>3. CASE Administrator
    BY <1>2, <1>3, AdministratorFrame
  <1>4. ASSUME NEW k \in Jobs, Syncs(k)
        PROVE  \/ job'[j] = job[j]
               \/ job'[j] = Quiet /\ (StoreAll(j) \/ StoreOne(j))
               \/ ScanBegins(j, job'[j])
               \/ job[j] # Quiet /\ ScanGoesOn(j, job'[j])
    <2>1. ASSUME NEW of, BeginSync(k, of) PROVE job'[j] = job[j] \/ ScanBegins(j, job'[j])
      <3>1. job[k] = Quiet /\ job' = [job EXCEPT ![k] = Scan("sync", of, Absent)]
        BY <2>1 DEF BeginSync
      <3>. QED  BY <1>1, <3>1 DEF Scan, ScanBegins
    <2>2. ASSUME NEW r, NEW name, BeginPageSync(k, r, name) PROVE job'[j] = job[j] \/ ScanBegins(j, job'[j])
      <3>1. job[k] = Quiet /\ job' = [job EXCEPT ![k] = Scan("page", {r}, [remote'[r] EXCEPT !.ip = None])]
        BY <2>2 DEF BeginPageSync
      <3>. QED  BY <1>1, <3>1 DEF Scan, ScanBegins
    <2>3. ASSUME NEW a \in Addresses, Probe(k, a)
          PROVE  job'[j] = job[j] \/ (job[j] # Quiet /\ ScanGoesOn(j, job'[j]))
      <3>. DEFINE there == {<<c, a>> : c \in {d \in Controllers : at[d] = a}}
      <3>1. PICK answers \in {there, {}} :
              /\ job' = [job EXCEPT ![k].probed = @ \cup {a}, ![k].found = @ \cup answers]
              /\ IF answers = {} /\ \E c \in Controllers : at[c] = a THEN Fault ELSE UNCHANGED faults
        BY <2>3 DEF Probe
      <3>2. ~Fault
        BY DEF Fault, TypeOK
      <3>3. answers = there
        BY <3>1, <3>2
      <3>4. job[k] # Quiet /\ job' = [job EXCEPT ![k] = [job[k] EXCEPT !.probed = @ \cup {a}, !.found = @ \cup there]]
        BY <1>0, <2>3, <3>1, <3>3 DEF Probe
      <3>5. job'[j] = IF j = k THEN [job[k] EXCEPT !.probed = @ \cup {a}, !.found = @ \cup there] ELSE job[j]
        BY <1>1, <3>4
      <3>. QED  BY <3>4, <3>5 DEF ScanGoesOn
    <2>4. CASE StoreAll(k) \/ StoreOne(k)
      BY <1>1, <2>4 DEF StoreAll, StoreOne
    <2>5. ~DiscoveryFails(k) /\ ~StoreRefused(k)
      BY Undisturbed
    <2>. QED  BY <1>4, <2>1, <2>2, <2>3, <2>4, <2>5 DEF Syncs
  <1>5. CASE \E c \in Controllers : Move(c)
    BY <1>2, <1>5 DEF Move
  <1>. QED  BY <1>2, <1>3, <1>4, <1>5 DEF Next, vars

LEMMA ScanStaysAccurate ==
  ASSUME TypeOK, [Next]_vars, faults' = faults, NEW j \in Jobs,
         job'[j] # Quiet, job[j] = Quiet \/ Accurate(j)
  PROVE  Accurate(j)'
  <1>1. UNCHANGED at
    BY Undisturbed
  <1>2. CASE job'[j] = job[j]
    BY <1>1, <1>2 DEF Accurate
  <1>3. CASE ScanBegins(j, job'[j])
    BY <1>1, <1>3 DEF Accurate, ScanBegins
  <1>4. CASE job[j] # Quiet /\ ScanGoesOn(j, job'[j])
    <2>. DEFINE there(s) == {<<c, at[c]>> : c \in {d \in Controllers : at[d] \in s}}
    <2>1. PICK a \in Addresses :
            job'[j] = [job[j] EXCEPT !.probed = @ \cup {a},
                                     !.found = @ \cup {<<c, a>> : c \in {d \in Controllers : at[d] = a}}]
      BY <1>4 DEF ScanGoesOn
    <2>2. job[j] \in Scans
      BY <1>4, JobType
    <2>3. /\ job'[j].probed = job[j].probed \cup {a}
          /\ job'[j].found = job[j].found \cup {<<c, a>> : c \in {d \in Controllers : at[d] = a}}
      BY <2>1, <2>2 DEF Scans
    <2>4. {<<c, a>> : c \in {d \in Controllers : at[d] = a}} = there({a})
      OBVIOUS
    <2>5. there(job[j].probed) \cup there({a}) = there(job[j].probed \cup {a})
      OBVIOUS
    <2>6. job[j].found = there(job[j].probed)
      BY <1>4 DEF Accurate
    <2>7. job'[j].found = there(job'[j].probed)
      BY <2>3, <2>4, <2>5, <2>6
    <2>. QED  BY <1>1, <2>7 DEF Accurate
  <1>. QED  BY <1>2, <1>3, <1>4, JobStep

(* discovery.py: what a scan that misses nothing has found is what is so,    *)
(* when no controller has moved since it began.                              *)
THEOREM ScansFindWhatIsSo == Spec => ScansAreAccurate
  <1>1. SetupInv /\ [Next]_vars =>
          (faults' = faults =>
             \A j \in Jobs : job'[j] # Quiet /\ (job[j] = Quiet \/ Accurate(j)) => Accurate(j)')
    BY ScanStaysAccurate DEF SetupInv
  <1>2. SetupInv /\ [Next]_vars =>
          [faults' = faults =>
             \A j \in Jobs : job'[j] # Quiet /\ (job[j] = Quiet \/ Accurate(j)) => Accurate(j)']_vars
    BY <1>1
  <1>. QED  BY <1>2, SetupInvariant, PTL DEF Spec, ScansAreAccurate

(* The one controller with the name is what an accurate scan has under it.   *)
LEMMA TheOneMatch ==
  ASSUME TypeOK, NEW j \in Jobs, NEW r \in Remotes, NEW c \in Controllers,
         job[j].probed = Addresses, Accurate(j), Answers(c, r)
  PROVE  /\ Suitable(remote[r].type, Matches(j, remote[r].name))
         /\ Found(Matches(j, remote[r].name)) = at[c]
  <1>. DEFINE matches == Matches(j, remote[r].name)
  <1>0. at \in [Controllers -> Somewhere]
    BY DEF TypeOK
  <1>1. \A d \in Controllers : at[d] \in Addresses <=> at[d] # None
    BY <1>0, SetupAssumption DEF Somewhere
  <1>2. job[j].found = {<<d, at[d]>> : d \in {e \in Controllers : at[e] \in Addresses}}
    BY DEF Accurate
  <1>3. /\ at[c] # None /\ NameOf[c] = Fold[remote[r].name]
        /\ \A d \in Controllers \ {c} : at[d] = None \/ NameOf[d] # NameOf[c]
        /\ remote[r].type \in Serves[c]
    BY DEF Answers
  <1>4. \A f : f \in matches <=> f \in job[j].found /\ NameOf[f[1]] = Fold[remote[r].name]
    BY DEF Matches
  <1>5. <<c, at[c]>> \in matches
    BY <1>1, <1>2, <1>3, <1>4
  <1>6. ASSUME NEW f \in matches PROVE f = <<c, at[c]>>
    <2>1. PICK d \in Controllers : f = <<d, at[d]>> /\ at[d] \in Addresses
      BY <1>2, <1>4
    <2>2. NameOf[d] = NameOf[c]
      BY <1>3, <1>4, <2>1
    <2>. QED  BY <1>1, <1>3, <2>1, <2>2
  <1>. HIDE DEF matches
  <1>7. matches = {<<c, at[c]>>}
    BY <1>5, <1>6
  <1>8. Cardinality(matches) = 1
    BY <1>7, FS_Singleton
  <1>9. Suitable(remote[r].type, matches) /\ Found(matches) = at[c]
    <2>1. Found(matches) = <<c, at[c]>>[2]
      BY <1>7 DEF Found
    <2>2. Suitable(remote[r].type, matches)
      BY <1>3, <1>7, <1>8 DEF Suitable
    <2>. QED  BY <2>1, <2>2
  <1>. QED  BY <1>9 DEF matches

(* Storing what such a scan has found. *)
LEMMA StoredReaches ==
  ASSUME TypeOK, NEW j \in Jobs, NEW r \in Remotes, NEW c \in Controllers,
         Answers(c, r), Accurate(j), UNCHANGED at,
         \/ StoreAll(j) /\ r \in job[j].of
         \/ /\ StoreOne(j) /\ r \in job[j].of
            /\ job[j].seen.name = remote[r].name /\ job[j].seen.type = remote[r].type
  PROVE  /\ remote'[r].ip = at[c]
         /\ remote[r].type = "lg_tv" => remote'[r].url = at[c]
         /\ remote'[r].name = remote[r].name /\ remote'[r].type = remote[r].type
         /\ remote'[r] # Absent
  <1>0. remote[r] \in [type : Types, name : Names \cup {Blank}, ip : Somewhere, url : Somewhere]
    BY DEF TypeOK, Remote, Answers, Named
  <1>1. job[j].probed = Addresses /\ Named(r)
    BY DEF StoreAll, StoreOne, Scanned, Answers
  <1>2. /\ Suitable(remote[r].type, Matches(j, remote[r].name))
        /\ Found(Matches(j, remote[r].name)) = at[c]
    BY <1>1, TheOneMatch
  <1>3. \A rec \in [type : Types, name : Names \cup {Blank}, ip : Somewhere, url : Somewhere] : rec # Absent
    BY DEF Absent, Types
  <1>4. at[c] \in Somewhere
    BY DEF TypeOK
  <1>5. CASE StoreAll(j) /\ r \in job[j].of
    <2>1. remote'[r] = Synced(remote[r], Matches(j, remote[r].name))
      BY <1>1, <1>5 DEF StoreAll
    <2>2. remote'[r] = Addressed(remote[r], at[c])
      BY <1>2, <2>1 DEF Synced
    <2>3. remote'[r] = [remote[r] EXCEPT !.ip = at[c], !.url = IF remote[r].type = "lg_tv" THEN at[c] ELSE @]
      BY <2>2 DEF Addressed
    <2>4. remote'[r] \in [type : Types, name : Names \cup {Blank}, ip : Somewhere, url : Somewhere]
      BY <1>0, <1>4, <2>3
    <2>. QED  BY <1>0, <1>3, <2>3, <2>4
  <1>6. CASE /\ StoreOne(j) /\ r \in job[j].of
             /\ job[j].seen.name = remote[r].name /\ job[j].seen.type = remote[r].type
    <2>. DEFINE seen == job[j].seen
    <2>. DEFINE new == Addressed(seen, Found(Matches(j, seen.name)))
    <2>1. remote'[r] = [remote[r] EXCEPT !.ip = new.ip, !.url = new.url]
      BY <1>1, <1>2, <1>6 DEF StoreOne, Named
    <2>2. new = [seen EXCEPT !.ip = at[c], !.url = IF seen.type = "lg_tv" THEN at[c] ELSE @]
      BY <1>2, <1>6 DEF Addressed
    <2>3. seen \in [type : Types, name : Names \cup {Blank}, ip : Somewhere, url : Somewhere]
      <3>1. job[j] \in Scans
        BY <1>6, JobType DEF StoreOne, Scanned
      <3>2. seen \in Remote /\ seen.type \in Types
        BY <1>0, <1>6, <3>1 DEF Scans
      <3>. QED  BY <3>2, PresentHasType DEF Remote
    <2>4. new.ip = at[c] /\ new.url \in Somewhere /\ (seen.type = "lg_tv" => new.url = at[c])
      BY <1>4, <2>2, <2>3
    <2>. HIDE DEF new, seen
    <2>5. remote'[r] \in [type : Types, name : Names \cup {Blank}, ip : Somewhere, url : Somewhere]
      BY <1>0, <1>4, <2>1, <2>4
    <2>6. seen.type = remote[r].type
      BY <1>6 DEF seen
    <2>. QED  BY <1>0, <1>3, <2>1, <2>4, <2>5, <2>6
  <1>. QED  BY <1>5, <1>6

(* discovery.py, sync_remote_ips: storing an accurate scan gives each remote *)
(* it is of the address of the one controller that answers to its name,      *)
(* whatever it was called when the scan began.                               *)
THEOREM SyncsReachRemotes == Spec => SyncsReach
  <1>1. ASSUME SetupInv, [Next]_vars, faults' = faults,
               NEW j \in Jobs, NEW r \in Remotes, NEW c \in Controllers,
               Scanned(j, "sync"), job'[j] = Quiet, r \in job[j].of, Accurate(j), Answers(c, r)
        PROVE  Reached(c, r)'
    <2>1. TypeOK /\ UNCHANGED at
      BY <1>1, Undisturbed DEF SetupInv
    <2>2. StoreAll(j)
      <3>1. job[j] # Quiet /\ ~StoreOne(j)
        BY <1>1 DEF Scanned, StoreOne
      <3>2. ~(job[j] # Quiet /\ ScanGoesOn(j, job'[j]))
        <4>1. job[j] \in Scans
          BY <2>1, <3>1, JobType
        <4>2. ASSUME NEW a \in Addresses, NEW more \in SUBSET (Controllers \X Addresses)
              PROVE  [job[j] EXCEPT !.probed = @ \cup {a}, !.found = @ \cup more] \in Scans
          BY <4>1 DEF Scans
        <4>3. Quiet \notin Scans
          BY DEF Quiet, Scans
        <4>4. \A a : {<<d, a>> : d \in {e \in Controllers : at[e] = a}} \in SUBSET (Controllers \X {a})
          OBVIOUS
        <4>5. ASSUME NEW new, ScanGoesOn(j, new) PROVE new \in Scans
          <5>1. PICK a \in Addresses :
                  new = [job[j] EXCEPT !.probed = @ \cup {a},
                                       !.found = @ \cup {<<d, a>> : d \in {e \in Controllers : at[e] = a}}]
            BY <4>5 DEF ScanGoesOn
          <5>2. {<<d, a>> : d \in {e \in Controllers : at[e] = a}} \in SUBSET (Controllers \X Addresses)
            BY <4>4
          <5>. QED  BY <4>2, <5>1, <5>2
        <4>. QED  BY <1>1, <4>3, <4>5
      <3>. QED  BY <1>1, <2>1, <3>1, <3>2, JobStep DEF ScanBegins
    <2>3. /\ remote'[r].ip = at[c]
          /\ remote[r].type = "lg_tv" => remote'[r].url = at[c]
          /\ remote'[r].type = remote[r].type
      BY <1>1, <2>1, <2>2, StoredReaches
    <2>. QED  BY <2>1, <2>3 DEF Reached
  <1>2. SetupInv /\ [Next]_vars =>
          [faults' = faults =>
             \A j \in Jobs, r \in Remotes, c \in Controllers :
               Scanned(j, "sync") /\ job'[j] = Quiet /\ r \in job[j].of /\ Accurate(j) /\ Answers(c, r)
                 => Reached(c, r)']_vars
    BY <1>1
  <1>. QED  BY <1>2, SetupInvariant, PTL DEF Spec, SyncsReach

(* Who writes the row of a remote that is named. *)
LEMMA RowWriters ==
  ASSUME TypeOK, [Next]_vars, faults' = faults, edits' = edits, NEW r \in Remotes, remote[r] # Absent
  PROVE  remote'[r] = remote[r] \/ \E j \in Jobs : StoreAll(j) \/ StoreOne(j)
  <1>1. ~Edit
    BY DEF Edit, TypeOK
  <1>2. CASE Administrator
    <2>. PICK s \in Remotes :
           \/ DeleteRemote(s) \/ \E type \in Types : CreateRemote(s, type)
           \/ \E name \in Names \cup {Blank} :
                \/ \E new \in Layouts : AddFromTemplate(s, name, new)
                \/ \E type \in Types, url \in Typed : AdminSave(s, type, name, url)
                \/ \E list \in shown[s], new \in Layouts : Save(s, list, new, name)
           \/ \E b \in Ids : DeleteButton(s, b) \/ \E slot \in Submitted(b) : PutButton(s, b, slot)
      BY <1>2 DEF Administrator
    <2>1. \A type : CreateRemote(s, type) => remote'[r] = remote[r]
      BY DEF CreateRemote, Fresh, TypeOK
    <2>2. \A name, new : AddFromTemplate(s, name, new) => remote'[r] = remote[r]
      BY DEF AddFromTemplate, Fresh, TypeOK
    <2>3. /\ ~DeleteRemote(s) /\ \A type, name, url : ~AdminSave(s, type, name, url)
          /\ \A list, new, name : ~Save(s, list, new, name)
          /\ \A b, slot : ~DeleteButton(s, b) /\ ~PutButton(s, b, slot)
      BY <1>1 DEF DeleteRemote, AdminSave, Save, DeleteButton, PutButton
    <2>. QED  BY <2>1, <2>2, <2>3
  <1>3. ASSUME NEW j \in Jobs, Syncs(j) PROVE remote'[r] = remote[r] \/ StoreAll(j) \/ StoreOne(j)
    BY <1>1, <1>3 DEF Syncs, BeginSync, BeginPageSync, DiscoveryFails, Probe, StoreRefused, rows
  <1>4. ASSUME NEW c \in Controllers, Move(c) PROVE remote'[r] = remote[r]
    BY <1>4 DEF Move, rows
  <1>. QED  BY <1>2, <1>3, <1>4 DEF Next, vars

(* What a scan is for, and what its page read, stays. *)
LEMMA TrustStays ==
  ASSUME TypeOK, [Next]_vars, faults' = faults, edits' = edits, NEW j \in Jobs, NEW r \in Remotes,
         Trusted(j, r), remote'[r].name = remote[r].name, remote'[r].type = remote[r].type
  PROVE  Trusted(j, r)'
  <1>. SUFFICES ASSUME job'[j] # Quiet
                PROVE  /\ Accurate(j)'
                       /\ job'[j].kind = "page" /\ r \in job'[j].of =>
                            /\ job'[j].seen.name = remote[r].name /\ job'[j].seen.type = remote[r].type
    BY DEF Trusted
  <1>1. Accurate(j)'
    BY ScanStaysAccurate DEF Trusted
  <1>2. CASE job'[j] = job[j]
    BY <1>1, <1>2 DEF Trusted
  <1>3. CASE job[j] # Quiet /\ ScanGoesOn(j, job'[j])
    <2>1. job[j] \in Scans
      BY <1>3, JobType
    <2>2. job'[j].kind = job[j].kind /\ job'[j].of = job[j].of /\ job'[j].seen = job[j].seen
      BY <1>3, <2>1 DEF ScanGoesOn, Scans
    <2>. QED  BY <1>1, <1>3, <2>2 DEF Trusted
  <1>4. CASE ScanBegins(j, job'[j])
    <2>1. \A k, s, name : ~BeginPageSync(k, s, name)
      BY DEF BeginPageSync, Edit, TypeOK
    <2>2. job'[j].kind = "sync" \/ job'[j] = job[j]
      <3>0. job \in [Jobs -> Scans \cup {Quiet}]
        BY DEF TypeOK
      <3>1. CASE UNCHANGED job
        BY <3>1
      <3>2. CASE Administrator
        BY <3>1, <3>2, AdministratorFrame
      <3>3. ASSUME NEW k \in Jobs, NEW of, BeginSync(k, of) PROVE job'[j].kind = "sync" \/ job'[j] = job[j]
        BY <3>0, <3>3 DEF BeginSync, Scan
      <3>4. ASSUME NEW k \in Jobs, NEW a \in Addresses, Probe(k, a) PROVE job'[j] = job[j]
        <4>1. j # k
          BY <1>4, <3>4 DEF ScanBegins, Probe
        <4>2. \E answers : job' = [job EXCEPT ![k].probed = @ \cup {a}, ![k].found = @ \cup answers]
          BY <3>4 DEF Probe
        <4>. QED  BY <3>0, <4>1, <4>2
      <3>5. ASSUME NEW k \in Jobs, StoreAll(k) \/ StoreOne(k) PROVE job'[j] = job[j]
        BY <3>0, <3>5 DEF StoreAll, StoreOne
      <3>6. ASSUME NEW k \in Jobs, Syncs(k) PROVE job'[j].kind = "sync" \/ job'[j] = job[j]
        BY <2>1, <3>3, <3>4, <3>5, <3>6, Undisturbed DEF Syncs
      <3>7. ASSUME NEW c \in Controllers, Move(c) PROVE UNCHANGED job
        BY <3>7 DEF Move
      <3>. QED  BY <3>1, <3>2, <3>6, <3>7 DEF Next, vars
    <2>3. job'[j].kind # "page"
      BY <1>4, <2>2 DEF ScanBegins
    <2>. QED  BY <1>1, <2>3
  <1>. QED  BY <1>2, <1>3, <1>4, JobStep

(* README.md:65: once a remote has the address of the one controller with    *)
(* its name, and every scan under way would give it that address, it keeps   *)
(* it through any number of further scans and stores, however they overlap,  *)
(* until a controller moves or an administrator writes.                      *)
THEOREM SettledRemotesStay == Spec => SettledStays
  <1>1. ASSUME SetupInv, [Next]_vars, faults' = faults, edits' = edits,
               NEW r \in Remotes, NEW c \in Controllers, Settled(c, r)
        PROVE  Settled(c, r)'
    <2>0. TypeOK /\ UNCHANGED at /\ Answers(c, r) /\ Reached(c, r) /\ \A j \in Jobs : Trusted(j, r)
      BY <1>1, Undisturbed DEF SetupInv, Settled
    <2>1. remote[r] # Absent
      BY <2>0 DEF Answers, Named
    <2>2. /\ remote'[r].ip = at[c]
          /\ remote[r].type = "lg_tv" => remote'[r].url = at[c]
          /\ remote'[r].name = remote[r].name /\ remote'[r].type = remote[r].type
          /\ remote'[r] # Absent
      <3>1. CASE remote'[r] = remote[r]
        BY <2>0, <2>1, <3>1 DEF Reached
      <3>2. ASSUME NEW j \in Jobs, StoreAll(j) \/ StoreOne(j), remote'[r] # remote[r]
            PROVE  r \in job[j].of /\ Trusted(j, r) /\ job[j] # Quiet /\ (StoreOne(j) => job[j].kind = "page")
        BY <2>0, <3>2 DEF StoreAll, StoreOne, Scanned
      <3>3. ASSUME NEW j \in Jobs, StoreAll(j) \/ StoreOne(j), remote'[r] # remote[r]
            PROVE  /\ remote'[r].ip = at[c]
                   /\ remote[r].type = "lg_tv" => remote'[r].url = at[c]
                   /\ remote'[r].name = remote[r].name /\ remote'[r].type = remote[r].type
                   /\ remote'[r] # Absent
        <4>1. /\ r \in job[j].of /\ Accurate(j)
              /\ StoreOne(j) => job[j].seen.name = remote[r].name /\ job[j].seen.type = remote[r].type
          BY <3>2, <3>3 DEF Trusted
        <4>. QED  BY <2>0, <3>3, <4>1, StoredReaches
      <3>. QED  BY <1>1, <2>0, <2>1, <3>1, <3>3, RowWriters
    <2>3. Answers(c, r)' /\ Reached(c, r)'
      BY <2>0, <2>2 DEF Answers, Named, Reached
    <2>4. \A j \in Jobs : Trusted(j, r)'
      BY <1>1, <2>0, <2>2, TrustStays
    <2>. QED  BY <2>3, <2>4 DEF Settled
  <1>2. SetupInv /\ [Next]_vars =>
          [faults' = faults /\ edits' = edits =>
             \A r \in Remotes, c \in Controllers : Settled(c, r) => Settled(c, r)']_vars
    BY <1>1
  <1>. QED  BY <1>2, SetupInvariant, PTL DEF Spec, SettledStays
=============================================================================
