-------------------------------- MODULE Shell --------------------------------
(***************************************************************************)
(* The program around imffs: main reads its options (a5_main.c), makes the *)
(* device with imffs_create, and calls imffs for one line of its input     *)
(* after the other, until quit or the end of the input.  Integers have     *)
(* Word values, 2^32 in the code, so sizes wrap.                           *)
(*                                                                         *)
(* Commands are followed on the device of Imffs, of BlockCount blocks; a   *)
(* session on any other is followed without the commands that use it.      *)
(***************************************************************************)
EXTENDS ImffsDefrag

CONSTANTS
  Word,           \* values of a uint32_t
  DefaultCount,   \* DEFAULT_BLOCK_COUNT, 64 in the code
  Typed,          \* what strtol makes of the values of -b; 0 stands for no number
  MaxOptions,     \* bound on the options of one start
  MaxLines        \* bound on the lines of the input

ASSUME WordAssumption == Word \in Nat \ {0} /\ Word % 2 = 0
ASSUME DefaultCountAssumption == DefaultCount \in 1 .. Word - 1
ASSUME TypedAssumption == Typed \subseteq Int

VARIABLES
  sh,      \* the locals of main and interactive_imffs, and where they are
  fs,      \* bytes, marks and places of the index that imffs_create has got
  input    \* options and lines still to read, and whether the last has no newline

svars == <<dvars, sh, fs, input>>

Commands ==
  [op : {"save"}, name : Names, arg : DiskFiles]
  \cup [op : {"load", "delete"}, name : Names, arg : {NULL}]
  \cup [op : {"rename"}, name : Names, arg : Names]
  \cup [op : {"dir", "defrag"}, name : {NULL}, arg : {NULL}]
NoCommand == [op |-> "none", name |-> NULL, arg |-> NULL]

NoDevice == [data |-> NULL, used |-> NULL, index |-> NULL]

SInit ==
  /\ DInit
  /\ sh = [at |-> "options", block_count |-> DefaultCount, command |-> NoCommand,
           exit |-> NULL]
  /\ fs = NoDevice
  /\ input \in [options : 0 .. MaxOptions, lines : 0 .. MaxLines, cut : BOOLEAN]

Goes(to) == sh' = [sh EXCEPT !.at = to]
Exits(code) == sh' = [sh EXCEPT !.at = "ended", !.exit = code]
Dies(how) == Halt(how) /\ UNCHANGED <<df, sh, fs, input>>

\* The process has ended, one way or another.
Died == status \in {"aborted", "undefined"}
Over == sh.at = "ended" \/ Died

-----------------------------------------------------------------------------
(* main: the options *)

InOptions == sh.at = "options" /\ UNCHANGED <<dvars, fs>>

\* A value out of range is reported and the default taken.
Accepted(value) == IF value \in 1 .. Word - 1 THEN value ELSE DefaultCount

OptionBlocks(value) ==
  /\ InOptions
  /\ input.options > 0
  /\ sh' = [sh EXCEPT !.block_count = Accepted(value)]
  /\ input' = [input EXCEPT !.options = @ - 1]

\* -h or an option that is not known.
OptionHelp ==
  /\ InOptions
  /\ input.options > 0
  /\ Exits(-1)
  /\ UNCHANGED input

ExtraArgument ==
  /\ InOptions
  /\ input.options = 0
  /\ Exits(0)
  /\ UNCHANGED input

OptionsRead ==
  /\ InOptions
  /\ input.options = 0
  /\ Goes("struct")
  /\ UNCHANGED input

-----------------------------------------------------------------------------
(* imffs_create *)

Creating(part) == sh.at = part /\ ~Died /\ UNCHANGED <<dvars, input>>

\* What malloc returns, told by its size.
Malloc(size) == {size % Word} \cup IF MallocMayFail THEN {NULL} ELSE {}

\* Without memory for the struct, fs stays NULL and the shell returns -1.
CreateStruct ==
  /\ Creating("struct")
  /\ \/ Goes("data")
     \/ MallocMayFail /\ Exits(-1)
  /\ UNCHANGED fs

CreateData ==
  /\ Creating("data")
  /\ \E got \in Malloc(sh.block_count * BytesPerBlock) : fs' = [fs EXCEPT !.data = got]
  /\ Goes("used")

\* The marks are written whatever malloc returned: to NULL, or behind the end
\* of what it gave when their number has wrapped.
CreateUsed ==
  /\ sh.at = "used"
  /\ ~Died
  /\ \E got \in Malloc(sh.block_count + 1) :
       IF got = NULL \/ got <= sh.block_count
         THEN Dies("undefined")
         ELSE /\ fs' = [fs EXCEPT !.used = got]
              /\ Goes("index")
              /\ UNCHANGED <<dvars, input>>

\* mm_create takes an int and asserts that it is not negative and that its
\* mallocs succeed.
CreateIndex ==
  /\ sh.at = "index"
  /\ ~Died
  /\ \/ /\ sh.block_count < Word \div 2
        /\ fs' = [fs EXCEPT !.index = sh.block_count]
        /\ Goes("check")
        /\ UNCHANGED <<dvars, input>>
     \/ /\ sh.block_count >= Word \div 2 \/ MallocMayFail
        /\ Dies("aborted")

\* Variant: only the marks and the index are looked at.
CreateCheckedPartly ==
  /\ sh.at = "check"
  /\ ~Died
  /\ IF fs.used # NULL /\ fs.index # NULL
       THEN Goes("prompt") /\ UNCHANGED <<dvars, fs, input>>
       ELSE Dies("undefined")

\* A device that lacks a part is freed, but fs still points to it: the loop ends
\* with result 1, and imffs_destroy is called on it.
CreateChecked ==
  /\ sh.at = "check"
  /\ ~Died
  /\ IF fs.data # NULL /\ fs.used # NULL /\ fs.index # NULL
       THEN Goes("prompt") /\ UNCHANGED <<dvars, fs, input>>
       ELSE Dies("undefined")

-----------------------------------------------------------------------------
(* interactive_imffs: reading a line *)

Reading == sh.at = "prompt" /\ ~Died /\ UNCHANGED <<dvars, fs>>
NextLine == input.lines > 0 /\ input' = [input EXCEPT !.lines = @ - 1]
EndOfInput == input.lines = 0 /\ ~input.cut

ReadCommand(c) ==
  /\ Reading
  /\ sh.block_count = BlockCount
  /\ NextLine
  /\ sh' = [sh EXCEPT !.at = "call", !.command = c]

\* help, a blank line, no known command, or a wrong number of arguments.
ReadHelp == Reading /\ NextLine /\ UNCHANGED sh

ReadQuit == Reading /\ NextLine /\ Goes("leave")

\* Variant: the end of the input is no reason to leave.
ReadEofIgnored == Reading /\ EndOfInput /\ UNCHANGED <<sh, input>>

ReadEof == Reading /\ EndOfInput /\ Goes("leave") /\ UNCHANGED input

\* The line does not fit: its newline is still to come.
ReadLong == Reading /\ input.lines > 0 /\ Goes("skip") /\ UNCHANGED input

\* A NUL within the line hides its newline, which has been read.
ReadHidden == Reading /\ NextLine /\ Goes("skip")

\* A NUL at the beginning of the line: the character before the line is read.
ReadEmpty == sh.at = "prompt" /\ ~Died /\ input.lines > 0 /\ Dies("undefined")

\* The last line has no newline.
ReadCut ==
  /\ Reading
  /\ input.lines = 0
  /\ input.cut
  /\ Goes("skip")
  /\ input' = [input EXCEPT !.cut = FALSE]

Skip ==
  /\ sh.at = "skip"
  /\ NextLine
  /\ Goes("prompt")
  /\ UNCHANGED <<dvars, fs>>

\* fgetc returns EOF, which is no newline, again and again.
SkipAtEnd ==
  /\ sh.at = "skip"
  /\ input.lines = 0
  /\ input' = [input EXCEPT !.cut = FALSE]
  /\ UNCHANGED <<dvars, sh, fs>>

-----------------------------------------------------------------------------
(* Calling imffs *)

Saves(c) ==
  /\ c.op = "save"
  /\ \/ SaveUnopened(c.name) \/ SaveDuplicate(c.name)
     \/ \E f \in FileIds : SaveOpen(c.name, c.arg, f)

Loads(c) ==
  /\ c.op = "load"
  /\ \/ LoadMissing(c.name) \/ LoadFailed(c.name)
     \/ \E f \in FileIds : Load(c.name, f)

Deletes(c) ==
  /\ c.op = "delete"
  /\ \/ DeleteMissing(c.name) \/ DeleteUnread(c.name)
     \/ \E f \in FileIds : Delete(c.name, f)

Renames(c) ==
  /\ c.op = "rename"
  /\ \/ RenameRefused(c.name, c.arg) \/ RenameUnread(c.name, c.arg)
     \/ RenameAborts(c.name, c.arg)
     \/ \E f \in FileIds : Rename(c.name, c.arg, f) \/ RenameLosesFile(c.name, c.arg, f)

Lists(c) == c.op = "dir" /\ (Dir \/ DirAborts)

Call ==
  /\ sh.at = "call"
  /\ \/ /\ \/ Saves(sh.command) \/ Loads(sh.command) \/ Deletes(sh.command)
           \/ Renames(sh.command) \/ Lists(sh.command) \/ TouchDangling
        /\ UNCHANGED df
     \/ sh.command.op = "defrag" /\ (DefragStart \/ DefragUnready)
  /\ Goes("called")
  /\ UNCHANGED <<fs, input>>

\* The rest of a save or a defragmentation.
Work ==
  /\ sh.at = "called"
  /\ (SaveStep /\ UNCHANGED df) \/ Compact
  /\ UNCHANGED <<sh, fs, input>>

\* handle_result
HandleResult(result) == IF result \in {"FATAL", "INVALID"} THEN 1 ELSE 0

Return ==
  /\ sh.at = "called"
  /\ Between
  /\ df.phase = "idle"
  /\ sh' = [sh EXCEPT !.at = IF HandleResult(reply.result) = 0 THEN "prompt" ELSE "leave",
                      !.command = NoCommand]
  /\ UNCHANGED <<dvars, fs, input>>

Leave ==
  /\ sh.at = "leave"
  /\ \/ Destroy /\ Exits(0)
     \/ TouchDangling /\ UNCHANGED sh
  /\ UNCHANGED <<df, fs, input>>

-----------------------------------------------------------------------------
Options ==
  \/ \E value \in Typed : OptionBlocks(value)
  \/ OptionHelp \/ ExtraArgument \/ OptionsRead

Create == CreateStruct \/ CreateData \/ CreateUsed \/ CreateIndex \/ CreateChecked

Read ==
  \/ \E c \in Commands : ReadCommand(c)
  \/ ReadHelp \/ ReadQuit \/ ReadEof \/ ReadLong \/ ReadHidden \/ ReadEmpty \/ ReadCut

SNext ==
  \/ Options \/ Create \/ Read \/ Skip \/ SkipAtEnd
  \/ Call \/ Work \/ Return \/ Leave
  \/ Over /\ UNCHANGED svars

\* There is one process and it goes on as long as it can.
SSpec == SInit /\ [][SNext]_svars /\ WF_svars(SNext)

-----------------------------------------------------------------------------
(* Properties *)

HoldsBlocks ==
  fs.data # NULL /\ fs.data >= sh.block_count * BytesPerBlock

\* No session reaches its prompt with a part of the device missing or too small,
\* whichever malloc of imffs_create fails, as long as the size of the device does
\* not wrap: then neither a save nor a mark leaves what was allocated.
PromptHasDevice ==
  sh.at = "prompt" /\ ~Died /\ sh.block_count * BytesPerBlock < Word =>
    HoldsBlocks /\ fs.used > sh.block_count /\ fs.index = sh.block_count

\* The range that main names for the number of blocks is the range it can serve.
CountsServed == sh.at = "prompt" => HoldsBlocks

\* Every command comes back to the prompt, whether it succeeds or not, or the
\* process dies: the loops of imffs_save and imffs_defrag come to their ends, a
\* full device included, and no error leaves the session.
CommandsAnswered == sh.at = "call" ~> sh.at = "prompt" \/ Died

\* A session comes to its end, or it is left skipping the rest of a line that
\* does not come.
SessionEnds == <>(Over \/ (sh.at = "skip" /\ input.lines = 0))

\* The end of the input ends the session.
EofEndsSession == <>Over
=============================================================================
