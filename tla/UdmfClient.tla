----------------------------- MODULE UdmfClient -----------------------------
(***************************************************************************)
(* The data of a drag or of the clipboard (UdmfClientImpl): an application *)
(* makes a UnifiedData, adds records to it and sets it under a key, by     *)
(* which another part of the application finds a summary of it and then    *)
(* gets it, once.  What is set is the object, not a copy: a record added   *)
(* later is in it.  Kinds of records other than plain text and styled      *)
(* strings are not supported: adding one adds nothing.                     *)
(***************************************************************************)
EXTENDS SequencesExt

CONSTANTS
  Data,        \* UnifiedData objects
  MaxRecords,  \* bound: records of one object
  MaxGroups    \* bound: keys given out

ASSUME UdmfAssumption == MaxRecords \in Nat /\ MaxGroups \in Nat

Keys == 0 .. MaxGroups - 1   \* the number in udmf://drag...

VARIABLES
  records,         \* of an object: what it holds, in order
  unifiedDataMap,  \* a key that has data, to its object
  groupId,
  set,             \* the application's: a key it was given, to what it set
  got              \* and what it got: <<key, object>>

udmfVars == <<records, unifiedDataMap, groupId, set, got>>

\* PlainText, or an ApplicationDefinedRecord that holds a styled string or something else.
Record == [type : {"PLAIN_TEXT", "APPLICATION_DEFINED_RECORD"}, styled : BOOLEAN, size : 1 .. 2]

UDTypes == {"PLAIN_TEXT", "APPLICATION_DEFINED_RECORD"}

UdmfTypeOK ==
  /\ records \in [Data -> Seq(Record)] /\ groupId \in 0 .. MaxGroups
  /\ DOMAIN set = 0 .. groupId - 1 /\ DOMAIN unifiedDataMap \subseteq DOMAIN set
  /\ got \in Seq((0 .. MaxGroups - 1) \X Data)
  /\ \A key \in DOMAIN set : set[key] \in Data

UdmfInit ==
  /\ records = [d \in Data |-> <<>>]
  /\ unifiedDataMap = <<>> /\ groupId = 0 /\ set = <<>> /\ got = <<>>

-----------------------------------------------------------------------------
(***************************************************************************)
(* Records.                                                                *)
(***************************************************************************)
AddRecord(d, record) ==
  /\ Len(records[d]) < MaxRecords
  /\ records' = [records EXCEPT ![d] = Append(@, record)]
  /\ UNCHANGED <<unifiedDataMap, groupId, set, got>>

AddPlainTextRecord(d) ==
  \E size \in 1 .. 2 : AddRecord(d, [type |-> "PLAIN_TEXT", styled |-> FALSE, size |-> size])

AddSpanStringRecord(d) ==
  AddRecord(d, [type |-> "APPLICATION_DEFINED_RECORD", styled |-> TRUE, size |-> 1])

\* A record of the application's own, which it adds to the object through its own engine.
AddOwnRecord(d) ==
  AddRecord(d, [type |-> "APPLICATION_DEFINED_RECORD", styled |-> FALSE, size |-> 2])

GetPlainTextRecords(d) == SelectSeq(records[d], LAMBDA r : r.type = "PLAIN_TEXT")

\* The first styled string, if there is one.
GetSpanStringRecord(d) ==
  {records[d][i] : i \in {j \in DOMAIN records[d] :
     /\ records[d][j].type = "APPLICATION_DEFINED_RECORD" /\ records[d][j].styled
     /\ \A k \in 1 .. j - 1 : ~records[d][k].styled}}

Size(d) == Len(records[d])

-----------------------------------------------------------------------------
(***************************************************************************)
(* Keys.                                                                   *)
(***************************************************************************)
Put(m, k, d) == [j \in DOMAIN m \cup {k} |-> IF j = k THEN d ELSE m[j]]

\* mutant: keys are reused when their data was got.
GroupIdOfSize == Cardinality(DOMAIN unifiedDataMap)

\* getGroupId.
GroupId == groupId

SetData(d) ==
  /\ groupId < MaxGroups
  /\ LET key == GroupId
     IN  /\ unifiedDataMap' = Put(unifiedDataMap, key, d)
         /\ set' = Put(set, key, d)
  /\ groupId' = groupId + 1
  /\ UNCHANGED <<records, got>>

\* mutant: the data stays.
GetDataKeeping(key) ==
  /\ key \in DOMAIN unifiedDataMap
  /\ got' = Append(got, <<key, unifiedDataMap[key]>>)
  /\ UNCHANGED <<records, unifiedDataMap, groupId, set>>

\* A key that has no data, or none any more, is answered E_NOT_FOUND.
GetData(key) ==
  /\ key \in DOMAIN unifiedDataMap
  /\ got' = Append(got, <<key, unifiedDataMap[key]>>)
  /\ unifiedDataMap' = [k \in DOMAIN unifiedDataMap \ {key} |-> unifiedDataMap[k]]
  /\ UNCHANGED <<records, groupId, set>>

GetErrorInfo(key) ==
  IF key \in DOMAIN unifiedDataMap THEN "E_OK" ELSE "ERROR_CODE_DRAG_DATA_NOT_FOUND"

\* Of the object that is set under a key, as it is now: the size by type and in all.
GetSummary(key) ==
  LET of == records[unifiedDataMap[key]]
      Sum(s) == FoldLeft(LAMBDA sum, r : sum + r.size, 0, s)
  IN  [summary |-> [type \in {of[i].type : i \in DOMAIN of} |->
                      Sum(SelectSeq(of, LAMBDA r : r.type = type))],
       totalSize |-> Sum(of)]

\* What the application is shown of a summary: its total is added up again.
TransformSummary(summary) ==
  [summary EXCEPT !.totalSize = FoldFunction(+, 0, summary.summary)]

IsAppropriateType(summary, allowTypes) ==
  \E type \in allowTypes : type \in DOMAIN summary.summary

UdmfNext ==
  \/ \E d \in Data :
       AddPlainTextRecord(d) \/ AddSpanStringRecord(d) \/ AddOwnRecord(d) \/ SetData(d)
  \/ \E key \in Keys : GetData(key)

UdmfSpec == UdmfInit /\ [][UdmfNext]_udmfVars

-----------------------------------------------------------------------------
\* Data that is set is found under its key and no other until it is got, and is got once,
\* however many drags are begun and dropped.
GotOnce ==
  /\ UdmfTypeOK
  /\ \A i \in DOMAIN got :
       /\ got[i][1] \in DOMAIN set /\ got[i][2] = set[got[i][1]]
       /\ \A j \in DOMAIN got : got[i][1] = got[j][1] => i = j
  /\ \A key \in DOMAIN set :
       /\ (GetErrorInfo(key) # "E_OK") = (\E i \in DOMAIN got : got[i][1] = key)
       /\ key \in DOMAIN unifiedDataMap => unifiedDataMap[key] = set[key]

\* The summary tells what getting the data would find: a target that allows a type of it
\* finds records of that type, a styled string is found where one was put, and the sizes
\* add up to the same whichever way they are added.
SummaryTellsRecords ==
  \A key \in DOMAIN unifiedDataMap :
    LET d == unifiedDataMap[key]
        s == GetSummary(key)
    IN  /\ TransformSummary(s) = s
        /\ IsAppropriateType(s, {"PLAIN_TEXT"}) = (GetPlainTextRecords(d) # <<>>)
        /\ \A r \in GetSpanStringRecord(d) : r.styled
        /\ Cardinality(GetSpanStringRecord(d)) <= 1
        /\ GetSpanStringRecord(d) # {} => IsAppropriateType(s, UDTypes \ {"PLAIN_TEXT"})
        /\ (Size(d) = 0) = (s.totalSize = 0)
=============================================================================
