SPECIFICATION Spec
CONSTANT Packages <- Libraries
INVARIANTS ScaleFormatsAgree ServesUnlessBroken
