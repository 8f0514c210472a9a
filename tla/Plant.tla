------------------------------- MODULE Plant -------------------------------
(***************************************************************************)
(* internal/domain/asset/load.go: the plant definition, its validation and  *)
(* its index; and the part of edge.New that routes readings to topics.      *)
(*                                                                         *)
(* A plant is its sources and its assets, in the order of the file; a cell  *)
(* stands for enterprise, site, area, line and cell.  A tag is its name and *)
(* its address ("none" where the block is missing).  Descriptions, units,   *)
(* classes, scales and quality settings are left out: they do not decide    *)
(* where a reading goes.  Simulated sources, whose tags name a signal of the *)
(* line simulation, are left out.                                           *)
(***************************************************************************)
EXTENDS Registers, FiniteSets, SequencesExt

CONSTANT AddressSpace      \* number of registers a request can address: 65536

ASSUME PlantAssumption == AddressSpace \in Nat \ {0}

\* applyDefaults, for a tag.
Defaults(t) ==
    [t EXCEPT !.fn = IF @ = "" THEN "holding" ELSE @,
              !.column = IF @ = "" THEN t.name ELSE @]

\* The tags in definition order, each with its topic, asset and source.
TagRefs(p) ==
    FlattenSeq([i \in 1..Len(p.assets) |->
        LET a == p.assets[i]
        IN [j \in 1..Len(a.tags) |->
              [topic |-> <<a.cell, a.tags[j].name>>, asset |-> a.id,
               source |-> a.source, tag |-> Defaults(a.tags[j])]]])

TypeOf(p, s) == (CHOOSE d \in ToSet(p.sources) : d.name = s).type

\* Mutant: the last register may lie behind the address space.
Fits_late(t) == t.start + Words(t.typ) <= AddressSpace + 1

\* A tag's registers lie inside the address space.
Fits(t) == t.start + Words(t.typ) <= AddressSpace

\* validateTag, for a tag of a source of this type, after applyDefaults.
validateTag(t, type) ==
    /\ type = "modbus" => t.fn \in {"holding", "input"} /\ t.typ \in DataTypes /\ Fits(t)
    /\ type = "csv" => t.column # "none"

Distinct(s) == Cardinality(ToSet(s)) = Len(s)

\* Validate.
Validate(p) ==
    LET refs == TagRefs(p)
        names == [i \in 1..Len(p.sources) |-> p.sources[i].name]
    IN /\ p.sources # << >> /\ Distinct(names)
       /\ \A i \in 1..Len(p.sources) : p.sources[i].type \in {"modbus", "csv"}
       /\ p.assets # << >>
       /\ Distinct([i \in 1..Len(p.assets) |-> p.assets[i].id])
       /\ \A i \in 1..Len(p.assets) :
             p.assets[i].source \in ToSet(names) /\ p.assets[i].tags # << >>
       /\ Distinct([i \in 1..Len(refs) |-> refs[i].topic])
       /\ \A i \in 1..Len(refs) : validateTag(refs[i].tag, TypeOf(p, refs[i].source))

TagsForSource(p, s) == SelectSeq(TagRefs(p), LAMBDA r : r.source = s)

\* edge.New: the tag of a source's tags refs that a reading with this name is
\* taken for, the last one with the name.
RouteOf(refs, name) == Last(SelectSeq(refs, LAMBDA r : r.tag.name = name))

\* The assets of a source agree on who has which tag name.  Validate does not
\* ask for it when the assets are in different cells.
NamesClear(refs) == Distinct([i \in 1..Len(refs) |-> refs[i].tag.name])
=============================================================================
