------------------------------- MODULE Export -------------------------------
(***************************************************************************)
(* CMainDlg::dump_or_save() (gui/main_dialog.cpp): the selected rows of    *)
(* the list are written to a file or copied to the clipboard, row by row   *)
(* through line_buffer, while a progress dialog may stop it.  What a row   *)
(* says, and in what format, is left out: a row stands for its text.       *)
(***************************************************************************)
EXTENDS Integers, Sequences, SequencesExt

CONSTANT
    IsStream(_) \* is_ads of a result: its path has the name of a stream

VARIABLE export  \* the parameters, local variables and effects of dump_or_save()

\* Into a file; as text (paths or the table); as a list of files for the shell.
Modes == {"save", "copy text", "copy files"}

NoExport ==
    [mode |-> "none", rows |-> <<>>, next |-> 0, descriptor |-> 0, buffer |-> <<>>,
     file |-> <<>>, opened |-> FALSE, clipboard |-> <<>>, lost |-> FALSE, end |-> "none"]

\* File output: the descriptor of the file, or -1 if it is to be copied.
Descriptor(mode) == IF mode = "save" THEN 3 ELSE -1

\* An object of type File converts to its descriptor, and that to a condition.
Holds(descriptor) == descriptor # 0

\* The file is opened, and emptied, or else the clipboard.
ExportBegun(mode, rows) ==
    [NoExport EXCEPT !.mode = mode, !.rows = rows, !.next = 1,
        !.descriptor = Descriptor(mode), !.opened = ~Holds(Descriptor(mode))]

MoreRows(e) == e.next <= Len(e.rows)

IsLast(e) == e.next = Len(e.rows)

\* line_buffer with the next row, which is taken out again if the shell would not
\* know what to do with it.
WithRow(e) ==
    IF e.mode = "copy files" /\ IsStream(e.rows[e.next])
    THEN e.buffer
    ELSE Append(e.buffer, e.rows[e.next])

\* Mutant: what has been written stays in line_buffer.
FlushedTwice(e, buffer, stored) ==
    [e EXCEPT !.file = IF stored THEN @ \o buffer ELSE @,
              !.lost = @ \/ ~stored, !.buffer = buffer]

\* _write(), whose answer nobody looks at; line_buffer is emptied whatever it is.
Flushed(e, buffer, stored) ==
    [e EXCEPT !.file = IF stored THEN @ \o buffer ELSE @,
              !.lost = @ \/ ~stored, !.buffer = <<>>]

\* One round of the loop: flush if the dialog was updated, the row is the last one
\* or the buffer is large.  Only a file that is open stores anything.
RowExported(e, flush, stored) ==
    LET next == [e EXCEPT !.next = @ + 1]
    IN IF flush /\ Holds(e.descriptor)
       THEN Flushed(next, WithRow(e), stored /\ e.descriptor > 0)
       ELSE [next EXCEPT !.buffer = WithRow(e)]

\* The end of the try block.
ExportDone(e) == [e EXCEPT !.end = "whole", !.clipboard = IF e.opened THEN e.buffer ELSE @]

\* ERROR_CANCELLED is caught: what is in the buffer is dropped.
ExportCancelled(e) == [e EXCEPT !.end = "stopped"]
=============================================================================
