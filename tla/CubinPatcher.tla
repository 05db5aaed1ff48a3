---------------------------- MODULE CubinPatcher ----------------------------
(***************************************************************************)
(* CubinPatcher of src/sass/cubin_patcher.h: loads the template a compiler *)
(* made and replaces the instructions of its text section, as often as it  *)
(* is asked to.  Files are sequences of rows of eight bytes, offsets and   *)
(* sizes count rows; a row is the set of its one bits.                     *)
(***************************************************************************)
EXTENDS BitField, SequencesExt

CONSTANTS
  Templates,   \* the files load_template may find
  MaxCalls     \* calls of the patcher in one behaviour

Row == SUBSET (0 .. 63)

\* elf: at least 64 bytes and the magic number in front.  text: the sections
\* whose name contains ".text", in file order, all inside the file.
Section == [offset : Nat, size : Nat]
File == [elf : BOOLEAN, rows : Seq(Row), text : Seq(Section)]

ASSUME PatcherAssumption ==
  /\ MaxCalls \in Nat
  /\ Templates \subseteq File
  /\ \A f \in Templates : \A s \in DOMAIN f.text :
       f.text[s].offset + f.text[s].size <= Len(f.rows)

VARIABLES
  file,     \* the file data_ was last read from
  data,     \* the rows of data_
  window,   \* text_offset_ and text_size_
  valid,    \* valid_
  saved,    \* the last file written
  given,    \* the instructions of the last patch_and_save
  calls,    \* calls so far
  result    \* what the last call returned; "undefined": it left data_

patchVars == <<file, data, window, valid, saved, given, calls, result>>

NoFile == [elf |-> FALSE, rows |-> <<>>, text |-> <<>>]

PatchInit ==
  /\ file = NoFile /\ data = <<>> /\ saved = <<>> /\ given = <<>>
  /\ window = [offset |-> 0, size |-> 0] /\ valid = FALSE
  /\ calls = 0 /\ result = "none"

Calling == calls < MaxCalls /\ result # "undefined" /\ calls' = calls + 1

-----------------------------------------------------------------------------
NoSuchFile ==
  /\ Calling
  /\ result' = "false"
  /\ UNCHANGED <<file, data, window, valid, saved, given>>

\* data_ is replaced before anything is known about the file.
ReadFile(f) == Calling /\ file' = f /\ data' = f.rows /\ UNCHANGED <<saved, given>>

NotElf(f) ==
  /\ ReadFile(f) /\ ~f.elf
  /\ result' = "false"
  /\ UNCHANGED <<window, valid>>

\* Every section that matches overwrites the members, so the last one stays; if
\* none does they keep what they had.
KeptText(f) == IF f.text = <<>> \/ window.size > 0 THEN window ELSE Last(f.text)
TextOf(f) == IF f.text = <<>> THEN window ELSE Last(f.text)

Load(f) ==
  /\ ReadFile(f) /\ f.elf
  /\ window' = TextOf(f)
  /\ valid' = (window'.offset > 0 /\ window'.size > 0)
  /\ result' = IF valid' THEN "true" ELSE "false"

-----------------------------------------------------------------------------
ControlRow(row) == Unsigned(Field(row, 8, 8)) \in {31, 8}

Window == window.offset + 1 .. window.offset + window.size
AllRows == Window \intersect DOMAIN data
FreeRows == {i \in Window \intersect DOMAIN data : ~ControlRow(data[i])}
Before(i) == Cardinality({j \in FreeRows : j < i})

\* The loop skips the control rows of the text as it is, and ends when the words
\* or the rows run out.
Patched(words) ==
  [i \in DOMAIN data |->
     IF i \in FreeRows /\ Before(i) < Len(words) THEN words[Before(i) + 1] ELSE data[i]]
LeavesData(words) == ~(Window \subseteq DOMAIN data) /\ Cardinality(FreeRows) < Len(words)

Accepts(words) == valid /\ Len(words) <= window.size

Refuse(words) ==
  /\ Calling /\ given' = words
  /\ ~Accepts(words)
  /\ result' = "false"
  /\ UNCHANGED <<file, data, window, valid, saved>>

Patch(words) ==
  /\ Calling /\ given' = words
  /\ Accepts(words) /\ ~LeavesData(words)
  /\ data' = Patched(words)
  /\ \/ result' = "true" /\ saved' = data'
     \/ result' = "false" /\ UNCHANGED saved   \* the output cannot be opened
  /\ UNCHANGED <<file, window, valid>>

PatchOutside(words) ==
  /\ Calling /\ given' = words
  /\ Accepts(words) /\ LeavesData(words)
  /\ result' = "undefined"
  /\ UNCHANGED <<file, data, window, valid, saved>>

PatchNext(words) ==
  \/ NoSuchFile
  \/ \E f \in Templates : NotElf(f) \/ Load(f)
  \/ Refuse(words) \/ Patch(words) \/ PatchOutside(words)

\* On any words, as the backends of Toolchain and other callers give them.
PatchSpec == PatchInit /\ [][\E words \in Seq(Row) : PatchNext(words)]_patchVars

-----------------------------------------------------------------------------
OfTemplate(w) == \E f \in Templates : f.elf /\ f.text # <<>> /\ w = Last(f.text)

\* After a load that found a text section the window is the last one of that
\* file, whatever was loaded and patched before; a patch leaves data_ only when
\* the last load found none, and the window is that of an earlier template.
WindowOfTemplate ==
  /\ file.elf /\ file.text # <<>> => window = Last(file.text)
  /\ result = "undefined" => ~file.elf \/ file.text = <<>>
  /\ valid => OfTemplate(window)

\* The inductive invariant behind WindowOfTemplate: data_ has the rows of the
\* file, and the window comes from some template or is the initial one.
PatchTypes ==
  /\ file \in Templates \union {NoFile} /\ data \in Seq(Row)
  /\ window \in Section /\ valid \in BOOLEAN /\ calls \in 0 .. MaxCalls
  /\ result \in {"none", "true", "false", "undefined"}
PatchInv ==
  /\ PatchTypes /\ DOMAIN data = DOMAIN file.rows
  /\ window.size > 0 => OfTemplate(window)
  /\ valid => window.size > 0
  /\ file.elf /\ file.text # <<>> => window = Last(file.text)
  /\ result = "undefined" => ~file.elf \/ file.text = <<>>

\* The numbers of a set in increasing order.
Increasing(S) ==
  CHOOSE f \in [1 .. Cardinality(S) -> S] : \A a, b \in DOMAIN f : a < b => f[a] < f[b]

\* A patch changes free rows of the window only, in order, from the first on,
\* and it drops words silently exactly when control rows take their places.
PatchStep(words) ==
  LET free == Increasing({i \in DOMAIN data : i \in Window /\ ~ControlRow(data[i])})
      n == IF Len(words) <= Len(free) THEN Len(words) ELSE Len(free)
  IN  file' = file /\ data' \notin {data, file.rows} =>
        /\ DOMAIN data' = DOMAIN data
        /\ \A i \in DOMAIN data :
             data'[i] # data[i] => i \in Window /\ ~ControlRow(data[i])
        /\ \A k \in 1 .. n : data'[free[k]] = words[k]
        /\ \A k \in n + 1 .. Len(free) : data'[free[k]] = data[free[k]]
        /\ n < Len(words) =>
             Cardinality({i \in Window : ControlRow(data[i])}) > window.size - Len(words)
PatchExact == [][PatchStep(given')]_patchVars
=============================================================================
