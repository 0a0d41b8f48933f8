------------------------------- MODULE Registry -------------------------------
(***************************************************************************)
(* The gates that read records kept by hand: scripts/check_pin.py (what is *)
(* pinned, in four files), scripts/check_coverage_map.py (what is claimed  *)
(* of a paper) and scripts/check_coherent_families.py (which modules may   *)
(* still use the classes that the families have outgrown).                 *)
(***************************************************************************)
EXTENDS Sources

CONSTANTS
  PinsFile, Manifest, Toolchain, CI,   \* pins.json, lake-manifest.json, lean-toolchain, ci.yml
  Pin,           \* Pin[l]: [key, rev], if the line l pins something; a null rev is Absent
  Map,           \* the coverage map
  Claim,         \* Claim[l]: [status, fields, checked], if l is an entry of a map
  Version,       \* Version[l], if l says which version of the paper the map is of
  Words,         \* Words[l]: statuses, if the line l of a map declares some
  MapHeader,     \* what a map must say of itself and of its paper
  Corpus,        \* the lines with a key that comes from the corpus
  Legacy, TensorUnit, Binder,   \* the lines that use such a class; that bind the unit's
  LegacyDefining, UnitDefining, UnitCompat   \* the modules that may

ASSUME RegistryAssumption == {PinsFile, Manifest, Toolchain, CI, Map} \subseteq Paths \ Hidden

-----------------------------------------------------------------------------
Pinned(t, file) == {Pin[l] : l \in LinesOf(t, file) \cap DOMAIN Pin}
Keys(t, file)   == {pin.key : pin \in Pinned(t, file)}

\* The revisions that a file pins for a key: none where it is null or absent.
Rev(t, file, key) == {pin.rev : pin \in {x \in Pinned(t, file) : x.key = key /\ x.rev # Absent}}

PinHolds(t) ==
  /\ {"toolchain", "mathlib", "mathlib_input"} \subseteq Keys(t, PinsFile)
  /\ "toolchain" \in Keys(t, Toolchain) /\ "mathlib" \in Keys(t, Manifest)
  /\ Rev(t, PinsFile, "toolchain") = Rev(t, Toolchain, "toolchain")
  /\ \A key \in {"mathlib", "mathlib_input", "mfc"} : Rev(t, PinsFile, key) = Rev(t, Manifest, key)
  /\ "mfc" \in Keys(t, Manifest) => Rev(t, PinsFile, "mfc") # {}
  \* the command that ci.yml installs reads what the emitter of the manifest writes
  /\ Rev(t, PinsFile, "mfc_cli") # {}
  /\ Rev(t, PinsFile, "mfc_cli") = Rev(t, CI, "mfc_cli")
  /\ Rev(t, PinsFile, "mfc_cli") = Rev(t, PinsFile, "mfc")

-----------------------------------------------------------------------------
Versions(t) == {Version[l] : l \in LinesOf(t, Map) \cap DOMAIN Version}
Entries(t)  == {Claim[l] : l \in LinesOf(t, Map) \cap DOMAIN Claim}

Vocabulary(t) == UNION {Words[l] : l \in LinesOf(t, Map) \cap DOMAIN Words}

\* check_entry: more than a target needs a review, against the map's version of the paper.
EntryHolds(entry, vocabulary, versions) ==
  /\ entry.status \in vocabulary
  /\ entry.status # "target" => /\ {"review_doc", "reviewer", "reviewed_at"} \subseteq entry.fields
                                /\ versions \subseteq entry.checked
  /\ entry.status = "formalized" => "owner_accepted" \in entry.fields

\* A map is judged by the vocabulary and the version that it has itself.
MapHolds(t) ==
  /\ t[Map] # Absent /\ MapHeader \subseteq LinesOf(t, Map)
  /\ Cardinality(Versions(t)) = 1 /\ Vocabulary(t) # {}
  /\ Entries(t) # {}
  /\ \A entry \in Entries(t) : EntryHolds(entry, Vocabulary(t), Versions(t))
  /\ LinesOf(t, Map) \cap Corpus = {}

-----------------------------------------------------------------------------
FamiliesHold(t) ==
  /\ \A p \in Present(t) : Dir[p] = "DerivedAlgGeo" =>
       /\ p \notin LegacyDefining => LinesOf(t, p) \cap Legacy = {}
       /\ p \notin {UnitDefining, UnitCompat} => LinesOf(t, p) \cap TensorUnit = {}
  /\ LinesOf(t, UnitDefining) \cap Binder = {}
  /\ t[UnitCompat] # Absent /\ Cardinality({i \in DOMAIN t[UnitCompat] : t[UnitCompat][i] \in Binder}) = 2
=============================================================================
