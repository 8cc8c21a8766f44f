------------------------------ MODULE Catalogs -------------------------------
(****************************************************************************)
(* The declaration catalogs of a system (include/solar/catalog): direct     *)
(* declarations of the blueprint and the ones its components contribute,    *)
(* expanded, numbered per tag and checked for duplicates.  They are         *)
(* collected twice: from the user's components, to learn which built-in     *)
(* facilities are wanted, and from all components once those are known.     *)
(****************************************************************************)
EXTENDS Blueprint

VARIABLES
    pending,      \* declarations still to expand, in catalog order
    entries,      \* the entries of all catalogs
    provisional   \* the entries collected from the user's components alone

catalogVars == <<pending, entries, provisional>>

CatalogInit == pending = <<>> /\ entries = <<>> /\ provisional = <<>>

(* unique_t of the core tags, which are distinct, and the extensions. *)
CandidateTags == CoreTags \o SelectSeq(Distinct(bp.extensions), LAMBDA t : t \notin Range(CoreTags))

CatalogDependencies(tag) ==
    CASE tag = "change"       -> {"parameter"}
      [] tag = "processor"    -> {"event"}
      [] tag = "subscription" -> {"message"}
      [] OTHER                -> At(bp.tagDepends, tag, {})

(* Tags whose declarations may share a name. *)
SharedNames == {"change", "processor", "subscription", "check"}

-----------------------------------------------------------------------------

WrapDeclarations(tag, decls, owner, index, seen) ==
    [i \in DOMAIN decls |-> [tag |-> tag, decl |-> decls[i], owner |-> owner,
                             index |-> index, seen |-> seen]]

DirectFor(tag, all) == IF tag = "component" THEN all ELSE At(bp.direct, tag, <<>>)

(* The reserved aliases of a component and its Contributions, for one tag. *)
ContributedDeclarations(tag, c) ==
    LET authored == SelectSeq(At(bp.contributes, c, <<>>), LAMBDA d : d.tag = tag)
    IN  [i \in DOMAIN authored |-> authored[i].decl] \o
        IF tag = "execution" THEN BuiltinTasks(c) ELSE <<>>

(* Bug: a component is indexed among the components that contribute. *)
CollectCatalogOfOwners(tag, all) ==
    LET owners == SelectSeq(all, LAMBDA c : ContributedDeclarations(tag, c) # <<>>)
    IN  WrapDeclarations(tag, DirectFor(tag, all), Application, 0, {}) \o
        Concatenated([i \in DOMAIN owners |->
            WrapDeclarations(tag, ContributedDeclarations(tag, owners[i]), owners[i], i, {})])

CollectCatalog(tag, all) ==
    WrapDeclarations(tag, DirectFor(tag, all), Application, 0, {}) \o
    Concatenated([i \in DOMAIN all |->
        WrapDeclarations(tag, ContributedDeclarations(tag, all[i]), all[i], i, {})])

(* Every contribution names a tag of the candidate set. *)
GroupsRegistered(all) ==
    \A c \in Range(all) : \A d \in Range(At(bp.contributes, c, <<>>)) :
        d.tag \in Range(CandidateTags)

CollectCatalogSet(all) ==
    /\ pending' = Concatenated([t \in DOMAIN CandidateTags |-> CollectCatalog(CandidateTags[t], all)])
    /\ entries' = <<>>

(* FinalizeEntries numbers the expanded declarations of a tag from zero. *)
NextId(tag) == Cardinality({i \in DOMAIN entries : entries[i].tag = tag})

Expands(d) == d \in DOMAIN bp.expands

FinalizeEntry(p) ==
    /\ ~Expands(p.decl)
    /\ entries' = Append(entries, [tag |-> p.tag, decl |-> p.decl, owner |-> p.owner,
                                   index |-> p.index, id |-> NextId(p.tag)])
    /\ pending' = Tail(pending)
    /\ UNCHANGED <<stage, verdict>>

(* Bug: an expansion forgets what it comes from. *)
ExpandForgetful(p) ==
    /\ Expands(p.decl)
    /\ pending' = WrapDeclarations(p.tag, bp.expands[p.decl], p.owner, p.index, {}) \o Tail(pending)
    /\ UNCHANGED <<stage, verdict, entries>>

ExpandDeclaration(p) ==
    /\ Expands(p.decl)
    /\ IF p.decl \in p.seen
       THEN Reject("RecursiveExpansion") /\ UNCHANGED pending
       ELSE /\ pending' = WrapDeclarations(p.tag, bp.expands[p.decl], p.owner, p.index,
                                           p.seen \union {p.decl}) \o Tail(pending)
            /\ UNCHANGED <<stage, verdict>>
    /\ UNCHANGED entries

ExpandPending ==
    /\ stage \in {"provisional", "final"} /\ pending # <<>>
    /\ FinalizeEntry(Head(pending)) \/ ExpandDeclaration(Head(pending))
    /\ UNCHANGED <<bp, provisional>>

-----------------------------------------------------------------------------
(* The checks of Catalog and CatalogSet.                                    *)

Pairs == {p \in (DOMAIN entries) \X (DOMAIN entries) :
              p[1] < p[2] /\ entries[p[1]].tag = entries[p[2]].tag}

Name(e) == At(bp.names, e.decl, e.decl)

DuplicateName(e, f) == e.tag \notin SharedNames /\ Name(e) = Name(f)

DuplicateStableId(e, f) ==
    /\ {e.decl, f.decl} \subseteq DOMAIN bp.ids
    /\ bp.ids[e.decl] = bp.ids[f.decl]

(* ValidateCatalogDependency walks from every tag: a cycle is a set of tags *)
(* each of which depends on a member of the set.                            *)
CatalogCycle ==
    \E S \in SUBSET {t \in Range(CandidateTags) : CatalogDependencies(t) # {}} :
        S # {} /\ \A t \in S : CatalogDependencies(t) \intersect S # {}

CatalogDiagnostic ==
    CASE \E p \in Pairs : entries[p[1]].decl = entries[p[2]].decl -> "DuplicateDeclaration"
      [] \E p \in Pairs : DuplicateName(entries[p[1]], entries[p[2]]) -> "DuplicateName"
      [] \E p \in Pairs : DuplicateStableId(entries[p[1]], entries[p[2]]) -> "DuplicateStableId"
      [] \E t \in Range(CandidateTags) :
             ~(CatalogDependencies(t) \subseteq Range(CandidateTags)) -> "UnregisteredDependency"
      [] CatalogCycle -> "CatalogCycle"
      [] OTHER -> "none"

=============================================================================
