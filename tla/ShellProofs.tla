------------------------------ MODULE ShellProofs ------------------------------
(***************************************************************************)
(* For every number of blocks, every width of an integer and every input:  *)
(* what imffs_create has allocated when the shell first prompts.           *)
(***************************************************************************)
EXTENDS Shell, TLAPS

DataSize == sh.block_count * BytesPerBlock

\* The shell serves commands, or is about to stop doing so.
Serving == {"prompt", "call", "called", "skip", "leave"}

Places == {"options", "struct", "data", "used", "index", "check", "ended"} \cup Serving

SessionRecord ==
  [at : Places, block_count : 1 .. Word - 1,
   command : Commands \cup {NoCommand}, exit : {NULL, 0, -1}]

\* Each part of the device is as large as was asked for from when imffs_create has
\* passed over it, but a malloc may have left the bytes out until they are checked.
DeviceInv ==
  /\ sh \in SessionRecord
  /\ fs \in [data : Nat \cup {NULL}, used : Nat \cup {NULL}, index : Nat \cup {NULL}]
  /\ sh.at \in {"used", "index", "check"} => fs.data \in {NULL, DataSize % Word}
  /\ sh.at \in {"index", "check"} \cup Serving => fs.used > sh.block_count
  /\ sh.at \in {"check"} \cup Serving => fs.index = sh.block_count
  /\ sh.at \in Serving => fs.data = DataSize % Word /\ fs.data # NULL

LEMMA MallocSizes ==
  ASSUME WordAssumption, NEW size \in Nat, NEW got \in Malloc(size)
  PROVE  got \in {NULL, size % Word} /\ size % Word \in Nat
BY DEF WordAssumption, Malloc

LEMMA DataSizeType ==
  ASSUME BytesPerBlockAssumption, DeviceInv
  PROVE  DataSize \in Nat /\ sh.block_count \in Nat /\ sh.block_count + 1 \in Nat
<1>1. sh.block_count \in Nat /\ BytesPerBlock \in Nat
  BY WordAssumption DEF WordAssumption, BytesPerBlockAssumption, DeviceInv, SessionRecord
<1> QED BY <1>1 DEF DataSize

LEMMA Going ==
  ASSUME DeviceInv, NEW to \in Places, Goes(to)
  PROVE  /\ sh' \in SessionRecord
         /\ sh'.at = to /\ sh'.block_count = sh.block_count
BY DEF DeviceInv, SessionRecord, Goes

LEMMA Exiting ==
  ASSUME DeviceInv, NEW code \in {0, -1}, Exits(code)
  PROVE  /\ sh' \in SessionRecord
         /\ sh'.at = "ended" /\ sh'.block_count = sh.block_count
BY DEF DeviceInv, SessionRecord, Exits, Places

\* Whatever leaves fs and the count alone, and leads from one part of the session
\* to another, keeps the device.
LEMMA ServingKept ==
  ASSUME DeviceInv, fs' = fs, sh.at \in Serving, sh' \in SessionRecord,
         sh'.at \in Serving \cup {"ended"}, sh'.block_count = sh.block_count
  PROVE  DeviceInv'
BY DEF DeviceInv, DataSize, Serving

LEMMA OptionsStep ==
  ASSUME DeviceInv, Options
  PROVE  DeviceInv'
<1> USE WordAssumption, DefaultCountAssumption
<1>1. sh.at = "options" /\ fs' = fs
  BY DEF Options, OptionBlocks, OptionHelp, ExtraArgument, OptionsRead, InOptions
<1>2. ASSUME NEW value \in Typed, OptionBlocks(value) PROVE DeviceInv'
  <2>1. Accepted(value) \in 1 .. Word - 1
    BY DEF Accepted, DefaultCountAssumption
  <2>2. sh' = [sh EXCEPT !.block_count = Accepted(value)]
    BY <1>2 DEF OptionBlocks
  <2>3. sh' \in SessionRecord /\ sh'.at = "options"
    BY <1>1, <2>1, <2>2 DEF DeviceInv, SessionRecord
  <2> QED BY <1>1, <2>3 DEF DeviceInv, Serving
<1>3. CASE OptionHelp \/ ExtraArgument
  <2>1. sh' \in SessionRecord /\ sh'.at = "ended"
    BY <1>3, Exiting DEF OptionHelp, ExtraArgument
  <2> QED BY <1>1, <2>1 DEF DeviceInv, Serving
<1>4. CASE OptionsRead
  <2>1. sh' \in SessionRecord /\ sh'.at = "struct"
    BY <1>4, Going DEF OptionsRead, Places
  <2> QED BY <1>1, <2>1 DEF DeviceInv, Serving
<1> QED BY <1>2, <1>3, <1>4 DEF Options

LEMMA CreateStep ==
  ASSUME DeviceInv, Create
  PROVE  DeviceInv'
<1> USE WordAssumption, BytesPerBlockAssumption
<1>0. ASSUME UNCHANGED <<sh, fs>> PROVE DeviceInv'
  BY <1>0 DEF DeviceInv, DataSize
<1>1. CASE CreateStruct
  <2>1. sh' \in SessionRecord /\ sh'.at \in {"data", "ended"} /\ fs' = fs
    BY <1>1, Going, Exiting DEF CreateStruct, Places
  <2> QED BY <2>1 DEF DeviceInv, Serving
<1>2. CASE CreateData
  <2>1. /\ sh' \in SessionRecord /\ sh'.at = "used"
        /\ sh'.block_count = sh.block_count
    BY <1>2, Going DEF CreateData, Places
  <2>2. PICK got \in Malloc(DataSize) : fs' = [fs EXCEPT !.data = got]
    BY <1>2 DEF CreateData, DataSize
  <2>3. got \in {NULL, DataSize % Word} /\ DataSize % Word \in Nat
    BY <2>2, MallocSizes, DataSizeType
  <2>4. fs'.data = got /\ fs' \in [data : Nat \cup {NULL}, used : Nat \cup {NULL}, index : Nat \cup {NULL}]
    BY <2>2, <2>3 DEF DeviceInv
  <2>5. DataSize' = DataSize
    BY <2>1 DEF DataSize
  <2> QED BY <2>1, <2>3, <2>4, <2>5 DEF DeviceInv, Serving
<1>3. CASE CreateUsed
  <2>1. PICK got \in Malloc(sh.block_count + 1) :
          IF got = NULL \/ got <= sh.block_count
            THEN Dies("undefined")
            ELSE /\ fs' = [fs EXCEPT !.used = got]
                 /\ Goes("index")
    BY <1>3 DEF CreateUsed
  <2>2. CASE got = NULL \/ got <= sh.block_count
    BY <1>0, <2>1, <2>2 DEF Dies
  <2>3. CASE ~(got = NULL \/ got <= sh.block_count)
    <3>1. got \in Nat /\ sh.block_count \in Nat
      BY <2>3, MallocSizes, DataSizeType
    <3>2. /\ sh' \in SessionRecord /\ sh'.at = "index"
          /\ sh'.block_count = sh.block_count
      BY <2>1, <2>3, Going DEF Places
    <3>3. fs' = [fs EXCEPT !.used = got]
      BY <2>1, <2>3
    <3>4. /\ fs' \in [data : Nat \cup {NULL}, used : Nat \cup {NULL}, index : Nat \cup {NULL}]
          /\ fs'.used = got /\ fs'.data = fs.data
      BY <3>1, <3>3 DEF DeviceInv
    <3>5. sh.at = "used" /\ DataSize' = DataSize
      BY <1>3, <3>2 DEF CreateUsed, DataSize
    <3>6. fs'.used > sh'.block_count
      BY <2>3, <3>1, <3>2, <3>4
    <3> QED BY <3>2, <3>4, <3>5, <3>6 DEF DeviceInv, Serving
  <2> QED BY <2>2, <2>3
<1>4. CASE CreateIndex
  <2>1. CASE Dies("aborted")
    BY <1>0, <2>1 DEF Dies
  <2>2. CASE ~Dies("aborted")
    <3>1. sh.at = "index" /\ fs' = [fs EXCEPT !.index = sh.block_count] /\ Goes("check")
      BY <1>4, <2>2 DEF CreateIndex
    <3>2. /\ sh' \in SessionRecord /\ sh'.at = "check"
          /\ sh'.block_count = sh.block_count
      BY <3>1, Going DEF Places
    <3>3. /\ fs' \in [data : Nat \cup {NULL}, used : Nat \cup {NULL}, index : Nat \cup {NULL}]
          /\ fs'.index = sh.block_count /\ fs'.used = fs.used /\ fs'.data = fs.data
      BY <3>1, DataSizeType DEF DeviceInv
    <3>4. DataSize' = DataSize
      BY <3>2 DEF DataSize
    <3> QED BY <3>1, <3>2, <3>3, <3>4 DEF DeviceInv, Serving
  <2> QED BY <2>1, <2>2
<1>5. CASE CreateChecked
  <2>1. CASE fs.data # NULL /\ fs.used # NULL /\ fs.index # NULL
    <3>1. /\ sh' \in SessionRecord /\ sh'.at = "prompt" /\ fs' = fs
          /\ sh.at = "check" /\ sh'.block_count = sh.block_count
      BY <1>5, <2>1, Going DEF CreateChecked, Places, Serving
    <3>2. DataSize' = DataSize
      BY <3>1 DEF DataSize
    <3> QED BY <2>1, <3>1, <3>2 DEF DeviceInv, Serving
  <2>2. CASE ~(fs.data # NULL /\ fs.used # NULL /\ fs.index # NULL)
    BY <1>0, <1>5, <2>2 DEF CreateChecked, Dies
  <2> QED BY <2>1, <2>2
<1> QED BY <1>1, <1>2, <1>3, <1>4, <1>5 DEF Create

LEMMA ReadStep ==
  ASSUME DeviceInv, Read
  PROVE  DeviceInv'
<1>0. ASSUME UNCHANGED <<sh, fs>> PROVE DeviceInv'
  BY <1>0 DEF DeviceInv, DataSize
<1>1. CASE ReadHelp \/ ReadEmpty
  BY <1>0, <1>1 DEF ReadHelp, ReadEmpty, Reading, Dies
<1>2. ASSUME NEW c \in Commands, ReadCommand(c) PROVE DeviceInv'
  <2>1. sh' = [sh EXCEPT !.at = "call", !.command = c] /\ sh.at = "prompt" /\ fs' = fs
    BY <1>2 DEF ReadCommand, Reading
  <2>2. sh' \in SessionRecord /\ sh'.at = "call" /\ sh'.block_count = sh.block_count
    BY <1>2, <2>1 DEF DeviceInv, SessionRecord, Places, Serving
  <2> QED BY <2>1, <2>2, ServingKept DEF Serving
<1>3. CASE ReadQuit \/ ReadEof \/ ReadLong \/ ReadHidden \/ ReadCut
  <2>1. sh.at = "prompt" /\ fs' = fs /\ (Goes("leave") \/ Goes("skip"))
    BY <1>3 DEF ReadQuit, ReadEof, ReadLong, ReadHidden, ReadCut, Reading
  <2>2. /\ sh' \in SessionRecord /\ sh'.at \in {"leave", "skip"}
        /\ sh'.block_count = sh.block_count
    BY <2>1, Going DEF Places, Serving
  <2> QED BY <2>1, <2>2, ServingKept DEF Serving
<1> QED BY <1>1, <1>2, <1>3 DEF Read

LEMMA ServingStep ==
  ASSUME DeviceInv, Skip \/ Call \/ Return \/ Leave
  PROVE  DeviceInv'
<1>0. ASSUME UNCHANGED <<sh, fs>> PROVE DeviceInv'
  BY <1>0 DEF DeviceInv, DataSize
<1>1. CASE Skip \/ Call
  <2>1. sh.at \in {"skip", "call"} /\ fs' = fs /\ (Goes("prompt") \/ Goes("called"))
    BY <1>1 DEF Skip, Call
  <2>2. /\ sh' \in SessionRecord /\ sh'.at \in {"prompt", "called"}
        /\ sh'.block_count = sh.block_count
    BY <2>1, Going DEF Places, Serving
  <2> QED BY <2>1, <2>2, ServingKept DEF Serving
<1>2. CASE Return
  <2> DEFINE to == IF HandleResult(reply.result) = 0 THEN "prompt" ELSE "leave"
  <2>1. /\ sh.at = "called" /\ fs' = fs
        /\ sh' = [sh EXCEPT !.at = to, !.command = NoCommand]
    BY <1>2 DEF Return
  <2>2. to \in {"prompt", "leave"}
    OBVIOUS
  <2> HIDE DEF to
  <2>3. /\ sh' \in SessionRecord /\ sh'.at = to /\ sh'.block_count = sh.block_count
    BY <2>1, <2>2 DEF DeviceInv, SessionRecord, Places, Serving
  <2> QED BY <2>1, <2>2, <2>3, ServingKept DEF Serving
<1>3. CASE Leave
  <2>1. CASE Exits(0)
    BY <1>3, <2>1, Exiting, ServingKept DEF Leave, Serving
  <2>2. CASE ~Exits(0)
    BY <1>0, <1>3, <2>2 DEF Leave
  <2> QED BY <2>1, <2>2
<1> QED BY <1>1, <1>2, <1>3

LEMMA DeviceInvNext ==
  ASSUME DeviceInv, [SNext]_svars
  PROVE  DeviceInv'
<1>1. ASSUME UNCHANGED <<sh, fs>> PROVE DeviceInv'
  BY <1>1 DEF DeviceInv, DataSize
<1>2. CASE SkipAtEnd \/ Work \/ UNCHANGED svars
  BY <1>1, <1>2 DEF SkipAtEnd, Work, svars
<1> QED BY <1>1, <1>2, OptionsStep, CreateStep, ReadStep, ServingStep DEF SNext, svars

\* No session reaches its prompt without the device it asked for, whichever malloc
\* fails (imffs_create, lines 135 to 171, and mm_create), unless the size wraps.
THEOREM PromptIsServed == SSpec => []PromptHasDevice
<1>1. SInit => DeviceInv
  BY DefaultCountAssumption
  DEF SInit, DeviceInv, SessionRecord, Places, NoDevice, Serving, NoCommand, DefaultCountAssumption
<1>2. DeviceInv /\ [SNext]_svars => DeviceInv'
  BY DeviceInvNext
<1>3. DeviceInv => PromptHasDevice
  <2> SUFFICES ASSUME DeviceInv, sh.at = "prompt", DataSize < Word
               PROVE  HoldsBlocks /\ fs.used > sh.block_count /\ fs.index = sh.block_count
    BY DEF PromptHasDevice, DataSize
  <2>1. DataSize % Word = DataSize
    BY DataSizeType, WordAssumption, BytesPerBlockAssumption DEF WordAssumption
  <2> QED BY <2>1, DataSizeType, BytesPerBlockAssumption DEF DeviceInv, Serving, HoldsBlocks, DataSize
<1> QED BY <1>1, <1>2, <1>3, PTL DEF SSpec
=============================================================================
