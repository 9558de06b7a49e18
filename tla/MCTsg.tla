------------------------------- MODULE MCTsg -------------------------------
(* An instance: a group of two companies, "ral" and "hera", which publish on *)
(* one page once; "ral" is also the name that finds both.                    *)
EXTENDS CrossReference, TLC

CONSTANTS r1, r2

MCActors == [kandemir |-> {"ral"}, zorlu |-> {"hera", "abc"}]
MCTooShort == {"abc"}

Notice(of, numbered, mgmt, date, page) ==
    [of |-> of, numbered |-> numbered, mgmt |-> mgmt, date |-> date, page |-> page]

\* The search for "ral" finds notices of both companies.
MCAnswer ==
    [ral |-> <<{Notice("ral", FALSE, TRUE, 1, "p1")}, {Notice("hera", TRUE, TRUE, 3, "p2"),
                                                       Notice("ral", TRUE, FALSE, 2, "p1")}>>,
     hera |-> <<{Notice("hera", FALSE, TRUE, 4, "p3")}, {}>>]

Officer(name, role) == [name |-> name, role |-> role]

MCBlock ==
    [p1 |-> {[company |-> "ral", persons |-> {Officer("riza", {"yonetim kurulu", "imza"}),
                                              Officer("r1za", {"temsil"})}]},
     p2 |-> {[company |-> "ral", persons |-> {Officer("riza", {"yonetim kurulu", "imza"})}],
             [company |-> "hera", persons |-> {Officer("ayse", {"denet"})}]},
     p3 |-> {[company |-> "hera", persons |-> {Officer("ayse", {"denet"}), Officer("riza", {}),
                                               Officer("riza", {"mudur"})}]}]

MCScore == [ral |-> [ral |-> 100, hera |-> 65], hera |-> [ral |-> 40, hera |-> 100]]

MCAlike ==
    [riza |-> [Riza |-> 100, Ayse |-> 20], r1za |-> [Riza |-> 85, Ayse |-> 10],
     ayse |-> [Riza |-> 20, Ayse |-> 100]]

Interchangeable == Permutations(Runner)

=============================================================================
