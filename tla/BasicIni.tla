------------------------------ MODULE BasicIni ------------------------------
(***************************************************************************)
(* The canvas in the basic.ini of a profile (internal/obs/profile.go).  A  *)
(* line is a heading, a key with its value, or anything else; one size     *)
(* stands for the four of a canvas, which are read and written together.   *)
(***************************************************************************)
EXTENDS Naturals, Sequences, FiniteSetsExt

NoValue == ""   \* no value

Video == "Video"
Heading(name)        == [kind |-> "head", name |-> name, value |-> NoValue]
Setting(name, value) == [kind |-> "key", name |-> name, value |-> value]

\* What a loop over s keeps that takes the items at the indices I.
Kept(s, I) ==
  LET kept[n \in 0..Len(s)] ==
        IF n = 0 THEN <<>>
        ELSE IF n \in I THEN Append(kept[n - 1], s[n])
        ELSE kept[n - 1]
  IN kept[Len(s)]

NoCanvas == [size |-> NoValue, fps |-> NoValue]

\* The section of line i, as the reader and the writer follow it.
SectionOf(ini, i) ==
  LET above == {j \in 1..(i - 1) : ini[j].kind = "head"}
  IN IF above = {} THEN "" ELSE ini[Max(above)].name

At(ini, section, k) ==
  {i \in DOMAIN ini : /\ ini[i].kind = "key" /\ ini[i].name = k
                      /\ SectionOf(ini, i) = section}

\* iniSection: the last line of a key counts.
Value(ini, section, k) ==
  IF At(ini, section, k) = {} THEN NoValue ELSE ini[Max(At(ini, section, k))].value

ReadCanvas(ini) ==
  [size |-> Value(ini, Video, "BaseCX"),
   fps  |-> IF Value(ini, Video, "FPSCommon") = NoValue
            THEN "60" ELSE Value(ini, Video, "FPSCommon")]

Valid(canvas) == canvas.size # NoValue

\* The first line of each key of the section gets its new value.
Replaced(ini, section, updates) ==
  LET present == {k \in DOMAIN updates : At(ini, section, k) # {}}
      firsts  == {Min(At(ini, section, k)) : k \in present}
  IN [i \in DOMAIN ini |->
        IF i \in firsts THEN [ini[i] EXCEPT !.value = updates[ini[i].name]]
                        ELSE ini[i]]

\* Mistake: the keys go to the end of the file.
EndOfFile(ini, section) == Len(ini)

\* endOfSection: where the last section of that name stops.
EndOfSection(ini, section) ==
  LET heads == {i \in DOMAIN ini : ini[i].kind = "head"}
      start == Max({i \in heads : ini[i].name = section})
      next  == {i \in heads : i > start}
  IN IF next = {} THEN Len(ini) ELSE Min(next) - 1

\* iniSetSection: values replaced in place, missing keys at the end of the
\* section, a missing section at the end of the file.  order lists the keys as
\* sortedKeys does.
SetSection(ini, section, updates, order) ==
  LET new     == Replaced(ini, section, updates)
      absent  == {i \in DOMAIN order : At(ini, section, order[i]) = {}}
      missing == Kept(order, absent)
      added   == [i \in DOMAIN missing |-> Setting(missing[i], updates[missing[i]])]
      end     == EndOfSection(ini, section)
  IN IF missing = <<>> THEN new
     ELSE IF ~\E i \in DOMAIN ini : ini[i] = Heading(section)
          THEN new \o <<Heading(section)>> \o added
          ELSE SubSeq(new, 1, end) \o added \o SubSeq(new, end + 1, Len(new))

CanvasKeys == <<"BaseCX", "FPSCommon", "FPSType">>

Updates(canvas, type) ==
  [k \in {"BaseCX", "FPSCommon", "FPSType"} |->
     CASE k = "BaseCX"    -> canvas.size
       [] k = "FPSCommon" -> canvas.fps
       [] k = "FPSType"   -> type]

\* A canvas that is not valid changes nothing; FPSType 0 says that FPSCommon
\* is the rate.
ApplyCanvas(ini, want) ==
  IF Valid(want) THEN SetSection(ini, Video, Updates(want, "0"), CanvasKeys)
                 ELSE ini

\* The lines that are the machine's own, with their section, in their order.
OwnLines(ini) ==
  LET canvas == UNION {At(ini, Video, k) : k \in DOMAIN Updates(NoCanvas, "0")}
  IN Kept([i \in DOMAIN ini |-> <<SectionOf(ini, i), ini[i]>>],
          {i \in DOMAIN ini : ini[i] # Heading(Video) /\ i \notin canvas})

=============================================================================
