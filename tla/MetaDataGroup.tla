---------------------------- MODULE MetaDataGroup ----------------------------
(***************************************************************************)
(* A group of metadata, of the model, an object or a build item.  The      *)
(* group keeps its metadata in a list and in a map by key; a client holds  *)
(* every datum it added or asked for, in the group or not, and may rename  *)
(* it.  The namespace "" has reserved names only.                          *)
(***************************************************************************)
EXTENDS Integers, Sequences, FiniteSets, SequencesExt

CONSTANTS
  NameSpaces,  \* the namespaces that are used, "" among them
  Names,       \* the names that are used
  Reserved,    \* XML_3MF_METADATA_VALUE_1 ... 9
  MaxCount,    \* XML_3MF_MAXMETADATACOUNT
  MaxData      \* bound: data constructed over the group's life

ASSUME MetaDataAssumption ==
  /\ "" \in NameSpaces /\ "" \notin Names
  /\ Reserved \subseteq Names
  /\ {MaxCount, MaxData} \subseteq Nat \ {0}

VARIABLES
  data,           \* the data in the order of construction: namespace and name
  m_MetaData,     \* the group's list
  m_MetaDataMap,  \* the keys of the group's map
  renamed         \* history: a datum was given another name or namespace

metaDataVars == <<data, m_MetaData, m_MetaDataMap, renamed>>

(* A key is the pair: calculateKey joins namespace and name with a colon,  *)
(* and no namespace or name used here has one.                             *)
key(d) == <<data[d].ns, data[d].name>>

isValidNamespaceAndName(ns, name) == ns = "" => name \in Reserved

\* Mutant of hasMetaData: a key with a namespace is never found.
hasNameOnly(ns, name) == ns = "" /\ <<ns, name>> \in m_MetaDataMap

hasMetaData(ns, name) == <<ns, name>> \in m_MetaDataMap

(* AddMetaData of the API, a metadata element of a file, mergeMetaData.    *)
addMetaData(ns, name) ==
  /\ ~hasMetaData(ns, name)
  /\ isValidNamespaceAndName(ns, name)
  /\ Len(m_MetaData) < MaxCount
  /\ Len(data) < MaxData
  /\ data' = Append(data, [ns |-> ns, name |-> name])
  /\ m_MetaData' = Append(m_MetaData, Len(data) + 1)
  /\ m_MetaDataMap' = m_MetaDataMap \cup {<<ns, name>>}
  /\ UNCHANGED renamed

(* removeMetaData: the datum leaves the list; the map keeps its key.       *)
removeMetaData(index) ==
  /\ index \in DOMAIN m_MetaData
  /\ m_MetaData' = RemoveAt(m_MetaData, index)
  /\ UNCHANGED <<data, m_MetaDataMap, renamed>>

RemoveMetaDataByIndex(index) == removeMetaData(index)

(* RemoveMetaData: the first datum of the list that has the given name.    *)
RemoveMetaData(d) ==
  \E index \in DOMAIN m_MetaData :
    /\ data[m_MetaData[index]].name = data[d].name
    /\ \A i \in 1..(index - 1) : data[m_MetaData[i]].name # data[d].name
    /\ removeMetaData(index)

setName(d, name) ==
  /\ isValidNamespaceAndName(data[d].ns, name)
  /\ data' = [data EXCEPT ![d].name = name]
  /\ renamed' = TRUE
  /\ UNCHANGED <<m_MetaData, m_MetaDataMap>>

setNameSpace(d, ns) ==
  /\ isValidNamespaceAndName(ns, data[d].name)
  /\ data' = [data EXCEPT ![d].ns = ns]
  /\ renamed' = TRUE
  /\ UNCHANGED <<m_MetaData, m_MetaDataMap>>

(* clear, called by clearAll of the model.                                 *)
clear ==
  /\ m_MetaData' = << >>
  /\ m_MetaDataMap' = {}
  /\ UNCHANGED <<data, renamed>>

MetaDataInit ==
  /\ data = << >> /\ m_MetaData = << >> /\ m_MetaDataMap = {}
  /\ renamed = FALSE

MetaDataNext ==
  \/ \E ns \in NameSpaces, name \in Names : addMetaData(ns, name)
  \/ \E index \in 1..MaxCount : RemoveMetaDataByIndex(index)
  \/ \E d \in DOMAIN data : RemoveMetaData(d)
  \/ \E d \in DOMAIN data, name \in Names : setName(d, name)
  \/ \E d \in DOMAIN data, ns \in NameSpaces : setNameSpace(d, ns)
  \/ clear

MetaDataSpec == MetaDataInit /\ [][MetaDataNext]_metaDataVars

(* ------------------------------------------------------------------------ *)
(* Properties.                                                              *)

(* DistinctUnlessRenamed: in whatever order data are added, removed by index
   or by handle and cleared, the group has no two data with one key, and can
   find each of its data by key, unless a client renamed one.              *)
DistinctUnlessRenamed ==
  ~renamed =>
    /\ \A i, j \in DOMAIN m_MetaData : key(m_MetaData[i]) = key(m_MetaData[j]) => i = j
    /\ \A i \in DOMAIN m_MetaData : key(m_MetaData[i]) \in m_MetaDataMap
=============================================================================
