----------------------------- MODULE MCRounds -----------------------------
EXTENDS Rounds

CONSTANTS a, b, dir

\* Two files and the folder that holds the first.
MCCovers == {<<dir, a>>}
MCFileLists == {<<>>, <<b>>, <<b, a>>, <<dir>>}
MCChangedFiles == {{a}}

IssueSymmetry == Permutations(Issues)
=============================================================================
