SPECIFICATION Spec
CONSTANTS HeadNode = hd
          Workers = {w1, w2}
          MaxLaunches = 2
          MaxPolls = 2
          NumQuestions = 2
          Conc = 2
INVARIANTS RanksAreOwn
           RowsAreAnswers
PROPERTY LaunchEnds
CHECK_DEADLOCK FALSE
