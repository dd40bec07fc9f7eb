------------------------------ MODULE PathBuf -------------------------------
(* The path buffers of the BPF programs (bpf/helpers.h): fixed arrays that *)
(* are compared byte by byte as keys of hash maps, so a path matches a key *)
(* only when everything behind its NUL is zero.                            *)
EXTENDS Naturals, Sequences, SequencesExt

CONSTANTS
    Size,   \* PATH_BUF_SIZE
    Word,   \* bytes in a __u64
    Char,   \* the characters of a path, "/" among them
    Nul     \* the zero byte

ASSUME PathBufAssumption ==
    /\ Word \in Nat \ {0} /\ Size \in Nat \ {0} /\ Size % Word = 0
    /\ "/" \in Char /\ Nul \notin Char

Index == 0..(Size - 1)
Buffer == [Index -> Char \cup {Nul}]
Zeroed == [i \in Index |-> Nul]

(* pathToKey of the daemon.                                                *)
pathToKey(p) == [i \in Index |-> IF i < Len(p) THEN p[i + 1] ELSE Nul]

(* bpf_probe_read_*_str: at most Size - 1 characters and a NUL; what is    *)
(* behind the NUL stays.  The length it returns counts the NUL.            *)
StrLen(p) == IF Len(p) + 1 < Size THEN Len(p) + 1 ELSE Size
ReadStr(buf, p) ==
    [i \in Index |-> IF i < StrLen(p) - 1 THEN p[i + 1]
                     ELSE IF i = StrLen(p) - 1 THEN Nul ELSE buf[i]]

(* The string in a buffer.                                                 *)
StringOf(buf) ==
    LET ends == {i \in Index : buf[i] = Nul}
        n == CHOOSE i \in ends : \A j \in ends : i <= j
    IN [i \in 1..n |-> buf[i - 1]]

(* read_path: a path that just fits is taken for a truncated one too.      *)
read_path(buf, p) == [buf |-> ReadStr(buf, p), truncated |-> StrLen(p) = Size]

(* External: bpf_d_path builds the path with its NUL at the end of the     *)
(* buffer and moves it to the front, which leaves a part of it behind; a   *)
(* path that does not fit is an error.                                     *)
Fits(p) == Len(p) + 1 <= Size
d_path(p) ==
    LET start == Size - (Len(p) + 1)
    IN [i \in Index |-> IF i > Len(p) /\ i >= start THEN pathToKey(p)[i - start] ELSE pathToKey(p)[i]]

(* Of a path that does not fit, the buffer that get_safe_path has cleared  *)
(* is left with what fits, from its end.                                   *)
d_path_fails(p) ==
    [i \in Index |-> IF i < Size - 1 THEN p[Len(p) + i + 2 - Size] ELSE Nul]

(* Mutant: only whole words behind the path are cleared.                   *)
get_safe_path_words(buf, ret) ==
    LET word_start == ((ret + Word - 1) \div Word) * Word
    IN [i \in Index |-> IF i >= word_start THEN Nul ELSE buf[i]]

(* get_safe_path, from the buffer and the length that bpf_d_path returns:  *)
(* the rest of the last word is cleared by bytes, what follows by words.   *)
get_safe_path(buf, ret) ==
    LET word_start == ((ret + Word - 1) \div Word) * Word
        bytes == [i \in Index |-> IF ret <= i /\ i < word_start THEN Nul ELSE buf[i]]
    IN [i \in Index |-> IF (i \div Word) * Word >= word_start THEN Nul ELSE bytes[i]]

(* Mutant: the walk clears a byte only where it finds a slash.             *)
StepBackSlashes(st, len, keys) ==
    IF st.found \/ st.full[len] # "/" THEN st
    ELSE LET cut == [st.full EXCEPT ![len + 1] = Nul] IN [found |-> cut \in keys, full |-> cut]

(* One iteration of path_in_map's walk: the byte behind len is cleared,    *)
(* and at a slash the directory is looked up.                              *)
StepBack(st, len, keys) ==
    IF st.found THEN st
    ELSE LET cut == [st.full EXCEPT ![len + 1] = Nul]
         IN [found |-> st.full[len] = "/" /\ cut \in keys, full |-> cut]

(* path_in_map: the path, then its directories from the longest.           *)
path_in_map(path, keys) ==
    LET full == ReadStr(Zeroed, StringOf(path))
        walk[n \in Index] ==   \* after n iterations, from Size - 2 down
            IF n = 0 THEN [found |-> full \in keys, full |-> full]
            ELSE StepBack(walk[n - 1], Size - 1 - n, keys)
    IN walk[Size - 1].found

(* What a list of paths means: one of them, or below one that ends in "/". *)
Listed(p, paths) ==
    \E r \in paths : r = p \/ (r # << >> /\ r[Len(r)] = "/" /\ IsPrefix(r, p))
=============================================================================
