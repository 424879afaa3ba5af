----------------------------- MODULE MCRouting ------------------------------
EXTENDS Routing, TLC

HandlerSymmetry == Permutations(Handlers)

About(t, n) == [u \in Tasks |-> IF u = t THEN n ELSE NoMention]
Hinted == [hints |-> 1, names |-> 0, overlap |-> 2]
Named == [hints |-> 1, names |-> 2, overlap |-> 3]

Plain == [references |-> {}, markers |-> {}, mention |-> [t \in Tasks |-> NoMention],
          rounds |-> FALSE, mode |-> "auto", target |-> NoSession]

\* "Research X": new work, whatever exists.
Research == [Plain EXCEPT !.references = {"work"}, !.markers = {"work_prefix"}]
\* "new task: ..."
Fresh == [Plain EXCEPT !.references = {"new"}, !.markers = {"explicit_new"}]
\* "switch to the other one"
Other == [Plain EXCEPT !.references = {"other"}]
\* "continue the previous one"
Resume == [Plain EXCEPT !.references = {"recent"}, !.markers = {"resume", "steer"}]
\* "that one, in more detail"
That == [Plain EXCEPT !.references = {"ambiguous"}, !.markers = {"steer"}]
\* "what is the progress", with and without the mark that answers it
Progress == [Plain EXCEPT !.references = {"status"}, !.markers = {"kernel_query"}]
Status == [Plain EXCEPT !.references = {"status"}]
\* Mentions of the first task, of two alike, and of two a margin apart.
First == [Plain EXCEPT !.mention = About(1, Named)]
Alike == [Plain EXCEPT !.mention = [t \in Tasks |-> IF t \in {1, 2} THEN Hinted ELSE NoMention]]
Apart == [Plain EXCEPT !.rounds = TRUE,
             !.mention = [t \in Tasks |-> CASE t = 1 -> Hinted
                                            [] t = 2 -> [Hinted EXCEPT !.overlap = 1]
                                            [] OTHER -> NoMention]]
\* Sent as a new task, about the first one; and sent to a named session.
Forced == [First EXCEPT !.mode = "new_task"]
Directed == [First EXCEPT !.target = 2]

Sent == {Plain, Research, Fresh, Other, Resume, That, Progress, Status, First, Alike,
         Apart, Forced, Directed}
Stated == {50, 70, 90}
=============================================================================
