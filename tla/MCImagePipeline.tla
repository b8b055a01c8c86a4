-------------------------- MODULE MCImagePipeline --------------------------
(* Small images with pixels on every side of both thresholds, and zip      *)
(* files with letters of the marker, and with all of it.                   *)
EXTENDS ImagePipeline

\* The four pixels that have neighbours on all sides, row by row.
Some(a, b, c, d) ==
    [p \in Pixels |-> IF p = <<1, 1>> THEN a ELSE IF p = <<1, 2>> THEN b
                      ELSE IF p = <<2, 1>> THEN c ELSE IF p = <<2, 2>> THEN d ELSE 0]

\* The blur may leave a bright border.  The byte of 310 is weak, that of 300 is none.
Input(m, angle) == [blurred |-> [p \in Pixels |-> 100], m_magnitude |-> m,
                    m_direction |-> [p \in Interior |-> angle]]

ImageInputs == {Input(Some(310, 0, 60, 70), 0), Input(Some(60, 200, 310, 60), 0),
                Input(Some(300, 70, 60, 60), 135)}

\* Two weak pixels, and no strong one anywhere.
FaintInputs == {Input(Some(60, 0, 0, 70), 0)}

ZipLooks == {<<"other", "E", "O">>, <<"E", "O", "F">>}
=============================================================================
